---- MODULE Spec2Model ----
(***************************************************************************)
(* Verification model of the audioblocks DSP engine                        *)
(* (javierdrp/audio-effects-simulator).                                    *)
(*                                                                         *)
(* Numbers are fixed point integers:                                       *)
(*   - parameter values of a SmoothParam are integers in the parameter's   *)
(*     own unit (ms for delay times, 1/100 for gains);                     *)
(*   - audio samples and gains use the unit 1/100 (FULL_SCALE = 1.0).      *)
(*                                                                         *)
(* Several specifications share the module:                                *)
(*   SpecParam     - one SmoothParam and its three operations              *)
(*   SpecChain     - one EffectsChain: add and process                     *)
(*   SpecChainZero - the same chain constructed with a block size of 0     *)
(*   SpecDelay     - one StereoDelayEffect: construction, prepare, setters *)
(*                   and process_into (two DelayLines, delay_kernel)       *)
(*   SpecImpulse   - the same effect with its parameters left as           *)
(*                   constructed: prepare and process_into only            *)
(*   SpecEngine    - the AudioEngine on the control thread: build_chain    *)
(*                   and update_param                                      *)
(*   SpecRebuild   - build_chain on the control thread against the stream  *)
(*                   callback on the audio thread                          *)
(*   SpecRace      - one SmoothParam called from two threads, statement by *)
(*                   statement                                             *)
(*   SpecReverb    - one ReverbEffect: prepare and process_into            *)
(*   SpecOctaver   - one OctaverEffect: prepare, warmup and process_into   *)
(*   SpecRamp      - step_towards in floating point arithmetic             *)
(*   SpecGate      - one NoiseGateEffect: prepare and process_into         *)
(*   SpecOctPhase  - the OctaverEffect's phasor, write pointer and read    *)
(*                   indices under prepare and process_into                *)
(*   SpecOctHold   - the same with the semitones held at 0                 *)
(*   SpecSpectral  - one SpectralFilter: prepare and process_into          *)
(*   SpecSession   - a client's commands to the engine: build_chain,       *)
(*                   update_param and process_file                         *)
(*   SpecSender    - data_sender against the audio thread                  *)
(*   SpecWav       - the process_wav_file tasks and is_processing_file     *)
(*   SpecStream    - start_mic_stream and stop_stream                      *)
(*   SpecBackend   - the connections to the server and connected_client    *)
(***************************************************************************)
EXTENDS Integers, Sequences, FiniteSets, TLC

VARIABLES
    sp,        \* SpecParam: the SmoothParam under test
    sp_last,   \* SpecParam: the last call made on sp and the state before it
    chain,     \* SpecChain: the EffectsChain object
    io,        \* SpecChain: the last process() call: in_block, out_block, call log
    fx,        \* SpecDelay: the StereoDelayEffect object
    dio,       \* SpecDelay: history of the samples fed to / produced by fx
    eng,       \* SpecEngine, SpecRebuild, SpecSession: the AudioEngine object and its chains
    ctl,       \* SpecEngine, SpecRebuild: the control thread; SpecSession: the client
    aud,       \* SpecRebuild: the audio thread (the stream callback)
    cp,        \* SpecRace: a SmoothParam shared by a control and an audio thread
    rv,        \* SpecReverb: the ReverbEffect object and its last process_into call
    oc,        \* SpecOctaver, SpecOctPhase, SpecOctHold: the OctaverEffect and its last call
    rp,        \* SpecRamp: a SmoothParam stepped in floating point arithmetic
    gt,        \* SpecGate: the NoiseGateEffect object and its last process_into call
    sf,        \* SpecSpectral: the SpectralFilter object and its last prepare call
    ds,        \* SpecSender: the two plot queues, the audio thread and data_sender
    be,        \* SpecBackend: the websocket server: connected_client and its handlers
    strm,      \* SpecStream: the engine's stream, is_running and the last call
    wf         \* SpecWav: is_processing_file and the process_wav_file coroutines

paramVars == <<sp, sp_last>>
chainVars == <<chain, io>>
delayVars == <<fx, dio>>
engineVars == <<eng, ctl, aud>>
lateVars == <<gt, sf, ds, be, strm, wf>>
vars == <<sp, sp_last, chain, io, fx, dio, eng, ctl, aud, cp, rv, oc, rp, gt, sf, ds, be, strm, wf>>

\* what the actions of one specification leave alone
NotParam == <<chainVars, delayVars, engineVars, cp, rv, oc, rp, lateVars>>
NotChain == <<paramVars, delayVars, engineVars, cp, rv, oc, rp, lateVars>>
NotDelay == <<paramVars, chainVars, engineVars, cp, rv, oc, rp, lateVars>>
NotEngine == <<paramVars, chainVars, delayVars, cp, rv, oc, rp, lateVars>>
NotRace == <<paramVars, chainVars, delayVars, engineVars, rv, oc, rp, lateVars>>
NotReverb == <<paramVars, chainVars, delayVars, engineVars, cp, oc, rp, lateVars>>
NotOctaver == <<paramVars, chainVars, delayVars, engineVars, cp, rv, rp, lateVars>>
NotRamp == <<paramVars, chainVars, delayVars, engineVars, cp, rv, oc, lateVars>>
NotGate == <<paramVars, chainVars, delayVars, engineVars, cp, rv, oc, rp, sf, ds, be, strm, wf>>
NotSpectral == <<paramVars, chainVars, delayVars, engineVars, cp, rv, oc, rp, gt, ds, be, strm, wf>>
NotSender == <<paramVars, chainVars, delayVars, engineVars, cp, rv, oc, rp, gt, sf, be, strm, wf>>
NotBackend == <<paramVars, chainVars, delayVars, engineVars, cp, rv, oc, rp, gt, sf, ds, strm, wf>>
NotStream == <<paramVars, chainVars, delayVars, engineVars, cp, rv, oc, rp, gt, sf, ds, be, wf>>
NotWav == <<paramVars, chainVars, delayVars, engineVars, cp, rv, oc, rp, gt, sf, ds, be, strm>>

\* the value of the variables of a specification that is not running
IdleEngine == eng = 0 /\ ctl = 0 /\ aud = 0
IdleRace == cp = 0
IdleReverb == rv = 0
IdleOctaver == oc = 0
IdleRamp == rp = 0
IdleGate == gt = 0
IdleSpectral == sf = 0
IdleSender == ds = 0
IdleBackend == be = 0
IdleStream == strm = 0
IdleWav == wf = 0
IdleLate == IdleGate /\ IdleSpectral /\ IdleSender /\ IdleBackend /\ IdleStream /\ IdleWav

(***************************************************************************)
(* Arithmetic helpers                                                      *)
(***************************************************************************)

\* Python's max(a, b): the first argument unless the second is larger
Max(a, b) == IF b > a THEN b ELSE a

\* Python's min(a, b): the first argument unless the second is smaller
Min(a, b) == IF b < a THEN b ELSE a

Abs(x) == IF x < 0 THEN -x ELSE x

\* Python's int(n / d) for d > 0: truncation toward zero
TruncDiv(n, d) == IF n >= 0 THEN n \div d ELSE -((-n) \div d)

\* Mathematical clamp of x into [lo, hi], used to state the claims
ClampTo(x, lo, hi) == IF x < lo THEN lo ELSE IF x > hi THEN hi ELSE x

(***************************************************************************)
(* SmoothParam   (src/audioblocks/core.py)                                 *)
(***************************************************************************)

\* Bound of the parameter values explored: values range over -MaxVal..MaxVal
MaxVal == 3

Values == (-MaxVal)..MaxVal

\* (lo, hi) pairs of the parameters the effects construct: lo <= hi, with
\* room below lo and above hi inside Values
Ranges == {r \in ((-1)..1) \X (0..(MaxVal - 1)) : r[1] <= r[2]}

\* SmoothParam.__init__: current and target take the value as given
SmoothParam(value, lo, hi) ==
    [current |-> value, target |-> value, lo |-> lo, hi |-> hi, locked |-> FALSE]

\* set_target whose clamp forgets the upper limit
set_target_noHi(p, v) ==
    [p EXCEPT !.target = Max(v, p.lo)]

\* SmoothParam.set_target: with self._lock: target = min(max(v, lo), hi)
set_target(p, v) ==
    [p EXCEPT !.target = Min(Max(v, p.lo), p.hi)]

\* SmoothParam.nudge: with self._lock: target = min(max(target + dv, lo), hi)
nudge(p, dv) ==
    [p EXCEPT !.target = Min(Max(p.target + dv, p.lo), p.hi)]

\* step_towards that always jumps to the target
step_towards_jump(p, max_step) ==
    IF max_step < 0
    THEN [p |-> p, raised |-> TRUE, ret |-> 0]
    ELSE [p |-> [p EXCEPT !.current = p.target], raised |-> FALSE, ret |-> p.target]

\* step_towards that validates max_step only after taking the lock by hand
step_towards_leak(p, max_step) ==
    IF max_step < 0
    THEN [p |-> [p EXCEPT !.locked = TRUE], raised |-> TRUE, ret |-> 0]
    ELSE LET delta == p.target - p.current
             cur   == p.current + Min(Max(delta, -max_step), max_step)
         IN  [p |-> [p EXCEPT !.current = cur], raised |-> FALSE, ret |-> cur]

\* SmoothParam.step_towards: raises before the lock is taken when
\* max_step < 0; otherwise moves current by the clamped difference
step_towards(p, max_step) ==
    IF max_step < 0
    THEN [p |-> p, raised |-> TRUE, ret |-> 0]
    ELSE LET delta == p.target - p.current
             cur   == p.current + Min(Max(delta, -max_step), max_step)
         IN  [p |-> [p EXCEPT !.current = cur], raised |-> FALSE, ret |-> cur]

NoCall == [op |-> "init", arg |-> 0, ret |-> 0, raised |-> FALSE]

\* ---- idle values of the variables a specification does not use ----
IdleParam == sp = SmoothParam(0, 0, 0) /\ sp_last = [call |-> NoCall, pre |-> SmoothParam(0, 0, 0)]

\* ---- SpecParam ----

ParamInit ==
    /\ \E value \in Values : \E r \in Ranges :
          /\ sp = SmoothParam(value, r[1], r[2])
          /\ sp_last = [call |-> NoCall, pre |-> SmoothParam(value, r[1], r[2])]

\* a call of set_target(v): blocks while the lock is held
ParamSetTarget ==
    /\ UNCHANGED NotParam
    /\ ~sp.locked
    /\ \E v \in Values :
          /\ sp' = set_target(sp, v)
          /\ sp_last' = [call |-> [op |-> "set_target", arg |-> v, ret |-> 0, raised |-> FALSE],
                         pre |-> sp]

\* a call of nudge(dv): blocks while the lock is held
ParamNudge ==
    /\ UNCHANGED NotParam
    /\ ~sp.locked
    /\ \E dv \in Values :
          /\ sp' = nudge(sp, dv)
          /\ sp_last' = [call |-> [op |-> "nudge", arg |-> dv, ret |-> 0, raised |-> FALSE],
                         pre |-> sp]

\* a call of step_towards(max_step); a negative max_step raises before the
\* lock is requested, every other call blocks while the lock is held
ParamStepTowards ==
    \E m \in Values :
        /\ UNCHANGED NotParam
        /\ (m >= 0) => ~sp.locked
        /\ LET r == step_towards(sp, m) IN
              /\ sp' = r.p
              /\ sp_last' = [call |-> [op |-> "step_towards", arg |-> m,
                                       ret |-> r.ret, raised |-> r.raised],
                             pre |-> sp]

ParamNext == ParamSetTarget \/ ParamNudge \/ ParamStepTowards

(***************************************************************************)
(* Claims about SmoothParam                                                *)
(***************************************************************************)

\* C3: for every SmoothParam lo <= target <= hi holds in every reachable
\* state, the state right after construction with any initial value included.
\* (The statement of the claim; the constructor stores the value unclamped.)
C3_TargetInRange ==
    sp.lo <= sp.target /\ sp.target <= sp.hi

\* C4: set_target(v) and nudge(dv) do not raise; the new target is v,
\* respectively old target + dv, clamped to [lo, hi]; current, lo and hi are
\* left unchanged.
C4_SetTargetNudgeClamp ==
    LET c == sp_last.call
        pre == sp_last.pre
    IN  /\ (c.op = "set_target") =>
              /\ ~c.raised
              /\ sp.target = ClampTo(c.arg, pre.lo, pre.hi)
              /\ sp.current = pre.current /\ sp.lo = pre.lo /\ sp.hi = pre.hi
        /\ (c.op = "nudge") =>
              /\ ~c.raised
              /\ sp.target = ClampTo(pre.target + c.arg, pre.lo, pre.hi)
              /\ sp.current = pre.current /\ sp.lo = pre.lo /\ sp.hi = pre.hi

\* C4 witness: a set_target above hi, or a nudge below lo, has been clamped
C4_Witness ==
    \/ /\ sp_last.call.op = "set_target"
       /\ sp_last.call.arg > sp.hi
       /\ sp.target = sp.hi
    \/ /\ sp_last.call.op = "nudge"
       /\ sp_last.pre.target + sp_last.call.arg < sp.lo
       /\ sp.target = sp.lo

C6_NegativeStepFails ==
    LET c == sp_last.call
        pre == sp_last.pre
    IN  (c.op = "step_towards" /\ c.arg < 0) =>
            /\ c.raised
            /\ sp.current = pre.current
            /\ sp.target = pre.target
            /\ sp.locked = pre.locked
            /\ ~sp.locked
            /\ ENABLED ParamSetTarget
            /\ ENABLED ParamNudge
            /\ ENABLED ParamStepTowards

\* C6 witness: a negative step was refused while current was still away from target
C6_Witness ==
    /\ sp_last.call.op = "step_towards"
    /\ sp_last.call.arg < 0
    /\ sp_last.call.raised
    /\ sp.current # sp.target

(***************************************************************************)
(* EffectsChain   (src/audioblocks/core.py)                                *)
(*                                                                         *)
(* A block is a matrix frames x channels: a sequence of rows, each row a   *)
(* sequence of samples.  The chain treats its effects as opaque: what an   *)
(* effect writes is a function of the effect and of what it read, so every *)
(* effect kind is given a marker that it adds to each sample it copies.    *)
(* What prepare() does to the internal buffers differs per kind and is     *)
(* taken from each effect's prepare().                                     *)
(***************************************************************************)

\* Bounds of the chain model
MaxFrames  == 2      \* frames per block range over 1..MaxFrames
MaxEffects == 2      \* effects added to one chain
MaxBlocks  == 2      \* blocks an effect processes without a reset of its buffers

\* engine.py: SAMPLE_RATE
SAMPLE_RATE == 48000

\* octaver.py: OctaverEffect.__init__ window_ms default, and the minimum size
WINDOW_MS == 40
MIN_OCT_SIZE == 16

\* spectral.py: SpectralFilter.__init__ hop
INIT_HOP == 256

Kinds == {"delay", "reverb", "gate", "spectral", "octaver"}

KindTag(kind) ==
    CASE kind = "delay"    -> 1
      [] kind = "reverb"   -> 2
      [] kind = "gate"     -> 3
      [] kind = "spectral" -> 4
      [] kind = "octaver"  -> 5
      [] kind = "tap"      -> 0

\* (channels_in, channels_out) of the chains explored: mono to stereo, fewer
\* and as many outputs as inputs, and outputs that the input does not fill
Layouts == {<<1, 2>>, <<2, 1>>, <<2, 2>>, <<1, 3>>}

ZeroBlock(frames, channels) == [i \in 1..frames |-> [j \in 1..channels |-> 0]]

\* The input blocks fed to process(): samples 0 and 1 that alternate along
\* the rows and along the channels, so that no two neighbouring rows and no
\* two neighbouring channels are equal; b is the first sample
InBlocks(frames, channels) ==
    {[i \in 1..frames |-> [j \in 1..channels |-> (b + i + j) % 2]] : b \in {0, 1}}

\* An effect object as the chain sees it:
\*   id      - the order number of the add() that inserted it
\*   size    - OctaverEffect.size         (1 after construction)
\*   hop     - SpectralFilter.hop         (256 after construction)
\*   scratch - frames of the scratch arrays of the delay (_wetL, _wetR) and
\*             of the reverb (_tmp1 .. _preR)   (1 after construction)
\*   blocks  - blocks processed since the internal buffers were last zeroed
NewEffect(kind, id) ==
    [kind |-> kind, id |-> id, size |-> 1, hop |-> INIT_HOP, scratch |-> 1,
     blocks |-> 0]

\* StereoDelayEffect.prepare: DelayLine.configure on both lines allocates
\* new zero buffers and sets w = 0
PrepareDelay(e, sample_rate, blocksize) ==
    [e EXCEPT !.blocks = 0, !.scratch = blocksize]

\* ReverbEffect.prepare: _mk_side and the pre-delay allocate new zero
\* buffers with w = 0 and lp = 0
PrepareReverb(e, sample_rate, blocksize) ==
    [e EXCEPT !.blocks = 0, !.scratch = blocksize]

\* NoiseGateEffect.prepare: stores the sample rate, _gain_state is kept
PrepareGate(e, sample_rate, blocksize) == e

\* SpectralFilter.prepare: new rings and mask only when blocksize differs
\* from hop
PrepareSpectral(e, sample_rate, blocksize) ==
    IF blocksize # e.hop
    THEN [e EXCEPT !.hop = blocksize, !.blocks = 0]
    ELSE e

\* OctaverEffect.prepare: new buffer, w = 0 and phasor = 0 only when the
\* size required by sample rate and window_ms differs from the current size
PrepareOctaver(e, sample_rate, blocksize) ==
    LET req_size == Max(TruncDiv(sample_rate * WINDOW_MS, 1000), MIN_OCT_SIZE)
    IN  IF req_size # e.size
        THEN [e EXCEPT !.size = req_size, !.blocks = 0]
        ELSE e

\* PlotDataTap.prepare: the telemetry tap owns no DSP state
PrepareTap(e, sample_rate, blocksize) == e

\* Effect.prepare(sample_rate, channels_in, channels_out, blocksize) as each
\* effect class overrides it
EffectPrepare(e, sample_rate, channels_in, channels_out, blocksize) ==
    CASE e.kind = "delay"    -> PrepareDelay(e, sample_rate, blocksize)
      [] e.kind = "reverb"   -> PrepareReverb(e, sample_rate, blocksize)
      [] e.kind = "gate"     -> PrepareGate(e, sample_rate, blocksize)
      [] e.kind = "spectral" -> PrepareSpectral(e, sample_rate, blocksize)
      [] e.kind = "octaver"  -> PrepareOctaver(e, sample_rate, blocksize)
      [] e.kind = "tap"      -> PrepareTap(e, sample_rate, blocksize)

\* The channels of out (counted from 1) that process_into assigns:
\*   delay, reverb - out[:, 0:1] and out[:, 1:2]; the np.clip that follows
\*                   works in place and leaves an in-range sample as it is
\*   spectral      - both channels of a two channel block, else channel 0
\*   gate          - gate_kernel writes x_out[i, c] for every channel of x_in
\*   octaver       - every ch in range(out.shape[1])
WrittenChannels(kind, channels) ==
    CASE kind = "delay"    -> {1, 2} \cap (1..channels)
      [] kind = "reverb"   -> {1, 2} \cap (1..channels)
      [] kind = "spectral" -> IF channels = 2 THEN {1, 2} ELSE {1}
      [] kind = "gate"     -> 1..channels
      [] kind = "octaver"  -> 1..channels
      [] kind = "tap"      -> 1..channels

\* The lines of process_into that create an array when the effect processes
\* a block of `frames` frames and `channels` channels:
\*   delay    - 91, 92: the products and sums of the mix
\*   reverb   - 211: new scratch arrays when frames differs from their size;
\*              226, 227: the copies xL, xR; 274, 275: the mix
\*   spectral - 55: mono_in; 60: the windowed frame and fft_in; 63, 64:
\*              magnitude, phase; 68: current_mask; 71: the new mask_smooth;
\*              74: processed_fft; 77: processed_time
\*   octaver  - 126: mono_in (more than one channel); 131: mono_wet;
\*              150: the mix
\*   gate     - none: gate_kernel reads x_in and writes out
AllocLines(e, frames, channels) ==
    CASE e.kind = "delay"    -> {91, 92}
      [] e.kind = "reverb"   -> (IF e.scratch # frames THEN {211} ELSE {})
                                    \cup {226, 227, 274, 275}
      [] e.kind = "spectral" -> {55, 60, 63, 64, 68, 71, 74, 77}
      [] e.kind = "octaver"  -> (IF channels > 1 THEN {126} ELSE {}) \cup {131, 150}
      [] e.kind = "gate"     -> {}
      [] e.kind = "tap"      -> {}

\* Effect.process_into(x_in, out): the effect computes its output from x_in
\* and assigns it to the channels of out that its code assigns; the other
\* elements of out keep their value.  written and allocs report the channels
\* assigned and the arrays created by the call.
EffectProcessInto(e, x_in, out) ==
    LET channels == IF Len(out) = 0 THEN 0 ELSE Len(out[1])
        written  == WrittenChannels(e.kind, channels)
    IN  [e   |-> [e EXCEPT !.blocks = e.blocks + 1,
                           !.scratch = IF e.kind = "reverb" THEN Len(x_in) ELSE @],
         out |-> [i \in DOMAIN out |-> [j \in DOMAIN out[i] |->
                     IF j \in written THEN x_in[i][j] + KindTag(e.kind)
                     ELSE out[i][j]]],
         written |-> written,
         allocs  |-> AllocLines(e, Len(x_in), channels)]

\* EffectsChain.__init__
EffectsChain(sample_rate, channels_in, channels_out, blocksize) ==
    [sr |-> sample_rate, ci |-> channels_in, co |-> channels_out, bs |-> blocksize,
     effects |-> <<>>,
     bufA |-> ZeroBlock(blocksize, channels_out),
     bufB |-> ZeroBlock(blocksize, channels_out)]

\* add() that inserts the new effect in front of the others
add_front(ch, effect) ==
    [ch EXCEPT !.effects = <<EffectPrepare(effect, ch.sr, ch.ci, ch.co, ch.bs)>> \o @]

\* EffectsChain.add: prepare the effect, then append it
add(ch, effect) ==
    [ch EXCEPT !.effects = Append(@, EffectPrepare(effect, ch.sr, ch.ci, ch.co, ch.bs))]

\* _ensure_blocksize that records the new size without preparing the effects
ensure_blocksize_noPrepare(ch, frames) ==
    IF frames # ch.bs
    THEN [chain |-> [ch EXCEPT !.bs = frames,
                               !.bufA = ZeroBlock(frames, ch.co),
                               !.bufB = ZeroBlock(frames, ch.co)],
          log |-> <<>>]
    ELSE [chain |-> ch, log |-> <<>>]

\* EffectsChain._ensure_blocksize: on a new frame count record it, reallocate
\* both scratch buffers and prepare every effect in list order
ensure_blocksize(ch, frames) ==
    IF frames # ch.bs
    THEN [chain |-> [ch EXCEPT !.bs = frames,
                               !.bufA = ZeroBlock(frames, ch.co),
                               !.bufB = ZeroBlock(frames, ch.co),
                               !.effects = [k \in DOMAIN ch.effects |->
                                   EffectPrepare(ch.effects[k], ch.sr, ch.ci, ch.co, frames)]],
          log |-> [k \in DOMAIN ch.effects |->
                      [ev |-> "prepare", id |-> ch.effects[k].id, bs |-> frames]]]
    ELSE [chain |-> ch, log |-> <<>>]

\* routing step that leaves the channels beyond the copied ones as they were
route_noFill(bufA, in_block, ci, co) ==
    IF ci = 1 /\ co = 2
    THEN [i \in DOMAIN bufA |-> <<in_block[i][1], in_block[i][1]>>]
    ELSE LET ch == Min(ci, co)
         IN  [i \in DOMAIN bufA |-> [j \in 1..co |->
                 IF j <= ch THEN in_block[i][j] ELSE bufA[i][j]]]

\* The routing step of EffectsChain.process (core.py 115-122): writes into
\* _bufA; channels it does not assign keep what _bufA held
route(bufA, in_block, ci, co) ==
    IF ci = 1 /\ co = 2
    THEN [i \in DOMAIN bufA |-> <<in_block[i][1], in_block[i][1]>>]
    ELSE LET ch == Min(ci, co)
         IN  [i \in DOMAIN bufA |-> [j \in 1..co |->
                 IF j <= ch THEN in_block[i][j]
                 ELSE IF co > ch THEN 0 ELSE bufA[i][j]]]

\* loop that does not swap source and destination
RECURSIVE run_effects_noSwap(_, _)
run_effects_noSwap(st, k) ==
    IF k > Len(st.effects)
    THEN st
    ELSE LET r == EffectProcessInto(st.effects[k], st.bufs[st.src], st.bufs[st.dst])
         IN  run_effects_noSwap(
                 [effects |-> [st.effects EXCEPT ![k] = r.e],
                  bufs    |-> [st.bufs EXCEPT ![st.dst] = r.out],
                  src     |-> st.src,
                  dst     |-> st.dst,
                  log     |-> Append(st.log,
                                 [ev |-> "process", id |-> st.effects[k].id,
                                  kind |-> st.effects[k].kind,
                                  src |-> st.src, dst |-> st.dst,
                                  read |-> st.bufs[st.src], wrote |-> r.out,
                                  written |-> r.written, allocs |-> r.allocs])],
                 k + 1)

\* The loop of EffectsChain.process (core.py 124-127): st holds the effects,
\* the two buffers, the names of source and destination and the call log
RECURSIVE run_effects(_, _)
run_effects(st, k) ==
    IF k > Len(st.effects)
    THEN st
    ELSE LET r == EffectProcessInto(st.effects[k], st.bufs[st.src], st.bufs[st.dst])
         IN  run_effects(
                 [effects |-> [st.effects EXCEPT ![k] = r.e],
                  bufs    |-> [st.bufs EXCEPT ![st.dst] = r.out],
                  src     |-> st.dst,
                  dst     |-> st.src,
                  log     |-> Append(st.log,
                                 [ev |-> "process", id |-> st.effects[k].id,
                                  kind |-> st.effects[k].kind,
                                  src |-> st.src, dst |-> st.dst,
                                  read |-> st.bufs[st.src], wrote |-> r.out,
                                  written |-> r.written, allocs |-> r.allocs])],
                 k + 1)

\* core.py 124-127 as one step: src, dst = _bufA, _bufB, then the loop
ping_pong(effects, bufA, bufB, log) ==
    run_effects([effects |-> effects, bufs |-> [n \in {"A", "B"} |-> IF n = "A" THEN bufA ELSE bufB],
                 src |-> "A", dst |-> "B", log |-> log], 1)

\* EffectsChain.process(in_block, out_block): the new chain, the block copied
\* to out_block, the routed block and the log of prepare/process_into calls
process(ch, in_block) ==
    LET frames == Len(in_block)
        eb     == ensure_blocksize(ch, frames)
        c1     == eb.chain
        routed == route(c1.bufA, in_block, c1.ci, c1.co)
        st     == ping_pong(c1.effects, routed, c1.bufB, eb.log)
    IN  [chain  |-> [c1 EXCEPT !.effects = st.effects,
                               !.bufA = st.bufs["A"],
                               !.bufB = st.bufs["B"]],
         out_block |-> st.bufs[st.src],
         routed |-> routed,
         stale  |-> c1.bufA # ZeroBlock(frames, c1.co),
         log    |-> st.log]

\* io.pre_bs and io.pre_effects are the chain's block size and effects when
\* process() was called, io.stale says that _bufA then held data of an
\* earlier block, io.added lists the ids handed to add() in call order,
\* io.ctor_bs is the blocksize the constructor was given
NoIo == [op |-> "init", in_block |-> <<>>, out_block |-> <<>>, routed |-> <<>>,
         stale |-> FALSE, log |-> <<>>, pre_bs |-> 0, pre_effects |-> <<>>,
         added |-> <<>>, ctor_bs |-> 0]

IdleChain == chain = EffectsChain(0, 0, 0, 0) /\ io = NoIo

\* ---- SpecChain ----

\* EffectsChain(sample_rate, channels_in, channels_out, blocksize) with a
\* blocksize of at least one frame
ChainInit ==
    \E lay \in Layouts : \E bs \in 1..MaxFrames :
        /\ chain = EffectsChain(SAMPLE_RATE, lay[1], lay[2], bs)
        /\ io = [NoIo EXCEPT !.ctor_bs = bs]

\* EffectsChain(sample_rate, channels_in, channels_out, 0): __init__ has no
\* check of its arguments and builds two scratch buffers of no frames
ChainInitZero ==
    \E lay \in Layouts :
        /\ chain = EffectsChain(SAMPLE_RATE, lay[1], lay[2], 0)
        /\ io = [NoIo EXCEPT !.ctor_bs = 0]

\* chain.add(effect) with a newly constructed effect of some kind; the
\* builders (build_chain, main) add every effect before the first process()
ChainAdd ==
    /\ UNCHANGED NotChain
    /\ io.op = "init"
    /\ Len(chain.effects) < MaxEffects
    /\ \E kind \in Kinds :
          LET id == Len(io.added) + 1 IN
          /\ chain' = add(chain, NewEffect(kind, id))
          /\ io' = [io EXCEPT !.added = Append(@, id)]

\* chain.process(in_block, out_block) with a block of any frame count
ChainProcess ==
    /\ UNCHANGED NotChain
    /\ \A k \in DOMAIN chain.effects : chain.effects[k].blocks < MaxBlocks
    /\ \E frames \in 1..MaxFrames : \E in_block \in InBlocks(frames, chain.ci) :
          LET r == process(chain, in_block) IN
          /\ chain' = r.chain
          /\ io' = [op |-> "process", in_block |-> in_block, out_block |-> r.out_block,
                    routed |-> r.routed, stale |-> r.stale, log |-> r.log,
                    pre_bs |-> chain.bs, pre_effects |-> chain.effects,
                    added |-> io.added, ctor_bs |-> io.ctor_bs]

ChainNext == ChainAdd \/ ChainProcess

(***************************************************************************)
(* Claims about EffectsChain                                               *)
(***************************************************************************)

\* the process_into calls, and the prepare calls, of the last process()
ProcessCalls == SelectSeq(io.log, LAMBDA ev : ev.ev = "process")
PrepareCalls == SelectSeq(io.log, LAMBDA ev : ev.ev = "prepare")

\* C1: process() calls process_into of every effect exactly once, in add
\* order; the first effect reads the routed input, every later effect reads
\* what the previous one wrote; source and destination are two different
\* buffers at every call; out_block is what the last effect wrote, and the
\* routed input when the chain has no effect.
C1_PingPong ==
    (io.op = "process") =>
        LET n == Len(io.pre_effects)
            P == ProcessCalls
        IN  /\ Len(P) = n
            /\ n <= Len(io.added)
            /\ \A k \in 1..n :
                  /\ P[k].id = io.added[k]
                  /\ P[k].src # P[k].dst
                  /\ P[k].read = (IF k = 1 THEN io.routed ELSE P[k - 1].wrote)
            /\ io.out_block = (IF n = 0 THEN io.routed ELSE P[n].wrote)

\* C1 witness: a chain of two effects of different kinds has processed a block
C1_Witness ==
    /\ io.op = "process"
    /\ Len(io.pre_effects) = 2
    /\ io.pre_effects[1].kind # io.pre_effects[2].kind
    /\ Len(ProcessCalls) = 2
    /\ io.out_block # io.routed

\* C2: on every call the routing step fills the working buffer from the
\* input alone: mono-in/stereo-out puts input channel 0 in both channels; any
\* other layout copies the first min(channels_in, channels_out) channels and
\* zeroes the others.  The routed block is what the first effect reads and,
\* with no effect, what the caller receives.
C2_Routing ==
    (io.op = "process") =>
        LET f  == Len(io.in_block)
            ci == chain.ci
            co == chain.co
            m  == IF ci < co THEN ci ELSE co
        IN  /\ Len(io.routed) = f
            /\ \A i \in 1..f :
                  /\ Len(io.routed[i]) = co
                  /\ IF ci = 1 /\ co = 2
                     THEN io.routed[i][1] = io.in_block[i][1] /\ io.routed[i][2] = io.in_block[i][1]
                     ELSE /\ \A j \in 1..m : io.routed[i][j] = io.in_block[i][j]
                          /\ \A j \in (m + 1)..co : io.routed[i][j] = 0
            /\ (Len(io.pre_effects) = 0) => (io.out_block = io.routed)
            /\ (Len(io.pre_effects) > 0) => (ProcessCalls[1].read = io.routed)

\* C2 witness: a layout with channels to zero was routed into a working
\* buffer that still held the previous block
C2_Witness ==
    /\ io.op = "process"
    /\ io.stale
    /\ chain.ci = 1 /\ chain.co = 3
    /\ \E i \in DOMAIN io.in_block : io.in_block[i][1] = 1

\* C2 witness, second case: mono-in/stereo-out with no effect in the chain
C2_WitnessMonoStereo ==
    /\ io.op = "process"
    /\ chain.ci = 1 /\ chain.co = 2
    /\ Len(io.pre_effects) = 0
    /\ \E i \in DOMAIN io.out_block : io.out_block[i] = <<1, 1>>

\* what C10 says of the calls made by a process() whose frame count differs
\* from the configured block size, and of one whose frame count equals it
C10_Calls ==
    LET n == Len(io.pre_effects)
        frames == Len(io.in_block)
    IN  /\ (frames # io.pre_bs) =>
              /\ chain.bs = frames
              /\ Len(io.log) = 2 * n
              /\ \A k \in 1..n :
                    /\ io.log[k] = [ev |-> "prepare", id |-> io.pre_effects[k].id, bs |-> frames]
                    /\ io.log[n + k].ev = "process"
        /\ (frames = io.pre_bs) =>
              /\ chain.bs = io.pre_bs
              /\ PrepareCalls = <<>>
              /\ \A k \in 1..n : chain.effects[k].blocks = io.pre_effects[k].blocks + 1

\* C10 as claimed: a block of a new frame count makes the chain record the
\* size and prepare every effect once before any effect processes, and that
\* re-preparation resets the internal buffers of every effect; with an
\* unchanged frame count nothing is prepared and effect state carries over.
C10_Original ==
    (io.op = "process") =>
        /\ C10_Calls
        /\ (Len(io.in_block) # io.pre_bs) =>
              \A k \in 1..Len(io.pre_effects) : chain.effects[k].blocks = 1

\* the effect kinds whose prepare() always allocates new buffers when the
\* chain re-prepares them
ResetOnPrepare == {"delay", "reverb", "spectral"}

\* C10 amended: as C10, but the re-preparation resets the internal buffers
\* of the delay, reverb and spectral effects only; the gate keeps its gain
\* state and the octaver keeps its buffer, write pointer and phasor.
C10_Amended ==
    (io.op = "process") =>
        /\ C10_Calls
        /\ (Len(io.in_block) # io.pre_bs) =>
              \A k \in 1..Len(io.pre_effects) :
                  chain.effects[k].blocks =
                      (IF io.pre_effects[k].kind \in ResetOnPrepare
                       THEN 1
                       ELSE io.pre_effects[k].blocks + 1)

\* C10 witness: a block of a new frame count reached a chain holding a used
\* effect that is reset next to a used effect that is not
C10_Witness ==
    /\ io.op = "process"
    /\ Len(io.in_block) # io.pre_bs
    /\ \E k \in DOMAIN io.pre_effects :
          io.pre_effects[k].kind \in ResetOnPrepare /\ io.pre_effects[k].blocks > 0
    /\ \E k \in DOMAIN io.pre_effects :
          io.pre_effects[k].kind \notin ResetOnPrepare /\ io.pre_effects[k].blocks > 0

\* C13: once an effect has been prepared, no process_into call on it
\* allocates a buffer: every array the call uses for a block of the prepared
\* size exists since prepare.  (The statement of the claim; only the gate
\* processes a block without creating an array.)
C13_NoAllocInProcess ==
    (io.op = "process") =>
        \A k \in DOMAIN ProcessCalls : ProcessCalls[k].allocs = {}

\* C17: a chain cannot be constructed with a block size of zero, and no
\* process() call is made on a chain that was.  (The statement of the claim;
\* the constructor accepts every block size.)
C17_ZeroBlocksizeRejected ==
    /\ (io.op = "init") => chain.bs >= 1
    /\ (io.op = "process") => io.ctor_bs >= 1

\* C18: every process_into call assigns every channel of its output block,
\* whatever channels_out the chain was built with, so that the destination
\* keeps nothing of an earlier block or effect.  (The statement of the claim;
\* delay, reverb and spectral leave the third channel as they found it.)
C18_AllChannelsWritten ==
    (io.op = "process") =>
        \A k \in DOMAIN ProcessCalls :
            /\ ProcessCalls[k].written = 1..chain.co
            /\ \A i \in DOMAIN ProcessCalls[k].wrote : \A j \in 1..chain.co :
                  ProcessCalls[k].wrote[i][j] =
                      ProcessCalls[k].read[i][j] + KindTag(ProcessCalls[k].kind)

(***************************************************************************)
(* DelayLine and StereoDelayEffect   (src/be/audioblocks/delay.py)         *)
(*                                                                         *)
(* Times are whole milliseconds, sample rates are samples per second,      *)
(* samples and gains are hundredths (FULL_SCALE = 1.0).  A ring buffer is  *)
(* a function on 0..size-1.                                                *)
(***************************************************************************)

\* Bounds of the delay model
MaxDelayMs == 3      \* max_delay_ms handed to the constructor
MaxSamples == 8      \* samples fed to the effect between two prepare() calls
MaxPrepares == 2     \* prepare() calls on one effect
MaxSets == 1         \* setter calls on one effect

\* 1.0 in hundredths: the clip limit of np.clip(out, -1.0, 1.0)
FULL_SCALE == 100

\* delay.py 54-55: the limits of delay_ms and feedback
DELAY_LO == 1
FB_LO == 0
FB_HI == 95

\* delay.py 48: defaults of mix_dry, fb_step and step_samples
MIX_DRY == 80
FB_STEP == 2
STEP_SAMPLES == 2

\* delay.py 26: DelayLine.__init__ fs
DL_INIT_FS == 48000

\* the sample rates prepare() is called with
SampleRates == {1000, 2000}

\* constructor arguments explored: in range, below and above the range
CtorDelayMs  == {-1, 1, MaxDelayMs - 1, MaxDelayMs + 1}
CtorFeedback == {0, 20, 150}
CtorOffsetMs == {-2, 1}
CtorMixWet   == {50}

\* arguments of the setters explored
SetDelayMs  == {0, MaxDelayMs - 1, MaxDelayMs + 1}
NudgeDelayMs == {-1, 1}
SetFeedback == {0, 150}

\* a*b of two numbers in hundredths (float multiplication, truncated)
MulQ(a, b) == TruncDiv(a * b, FULL_SCALE)

\* delay_kernel whose read position is one sample too old
delay_kernel_offByOne(buf, w, size, x_block, dS, feedback) ==
    LET RECURSIVE loop(_, _)
        loop(st, n) ==
            IF n > Len(x_block) THEN st
            ELSE LET r == (st.w - dS - 1) % size
                     delayed == st.buf[r]
                     w1 == st.w + 1
                 IN  loop([buf   |-> [st.buf EXCEPT ![st.w] = x_block[n] + MulQ(delayed, feedback)],
                           w     |-> IF w1 = size THEN 0 ELSE w1,
                           wet   |-> Append(st.wet, delayed),
                           reads |-> Append(st.reads, r)], n + 1)
    IN  loop([buf |-> buf, w |-> w, wet |-> <<>>, reads |-> <<>>], 1)

\* delay_kernel(buf, w, size, x_block, wet_out, dS, feedback): for every
\* sample read buf[(w - dS) % size] into wet_out, write input + delayed *
\* feedback at w, advance w.  Returns the buffer, the new w, wet_out and the
\* read positions used.
delay_kernel(buf, w, size, x_block, dS, feedback) ==
    LET RECURSIVE loop(_, _)
        loop(st, n) ==
            IF n > Len(x_block) THEN st
            ELSE LET r == (st.w - dS) % size
                     delayed == st.buf[r]
                     w1 == st.w + 1
                 IN  loop([buf   |-> [st.buf EXCEPT ![st.w] = x_block[n] + MulQ(delayed, feedback)],
                           w     |-> IF w1 = size THEN 0 ELSE w1,
                           wet   |-> Append(st.wet, delayed),
                           reads |-> Append(st.reads, r)], n + 1)
    IN  loop([buf |-> buf, w |-> w, wet |-> <<>>, reads |-> <<>>], 1)

\* DelayLine.__init__
DelayLine == [fs |-> DL_INIT_FS, size |-> 1, buf |-> [i \in 0..0 |-> 0], w |-> 0]

\* DelayLine.configure(fs, max_delay_ms)
configure(dl, fs, max_delay_ms) ==
    LET size == TruncDiv(fs * max_delay_ms, 1000) + 1
    IN  [fs |-> fs, size |-> size, buf |-> [i \in 0..(size - 1) |-> 0], w |-> 0]

\* DelayLine.process_into(x_block, wet_out, delay_ms, feedback): the line
\* after the block, wet_out, and the dS and read positions it used
dl_process_into(dl, x_block, delay_ms, feedback) ==
    LET dS0 == TruncDiv(dl.fs * delay_ms, 1000)
        dS  == IF dS0 >= dl.size THEN dl.size - 1 ELSE dS0
        k   == delay_kernel(dl.buf, dl.w, dl.size, x_block, dS, feedback)
    IN  [dl |-> [dl EXCEPT !.buf = k.buf, !.w = k.w],
         wet |-> k.wet, dS |-> dS, reads |-> k.reads]

\* StereoDelayEffect.__init__
StereoDelayEffect(max_delay_ms, mix_dry, mix_wet, offset_ms, delay_ms, feedback, fb_step, step_samples) ==
    [max_delay_ms |-> max_delay_ms, mix_dry |-> mix_dry, mix_wet |-> mix_wet,
     offset_ms |-> offset_ms,
     delay_ms |-> SmoothParam(delay_ms, DELAY_LO, max_delay_ms - 1),
     feedback |-> SmoothParam(feedback, FB_LO, FB_HI),
     fb_step |-> fb_step, step_samples |-> step_samples,
     dlL |-> DelayLine, dlR |-> DelayLine,
     blocksize |-> 0,          \* frames of _wetL/_wetR; 0: not prepared
     delay_step_ms |-> 0]      \* set by prepare() before it is used

\* StereoDelayEffect.prepare
sd_prepare(e, sample_rate, channels_in, channels_out, blocksize) ==
    [e EXCEPT !.dlL = configure(e.dlL, sample_rate, e.max_delay_ms),
              !.dlR = configure(e.dlR, sample_rate, e.max_delay_ms),
              !.blocksize = blocksize,
              !.delay_step_ms = TruncDiv(1000 * e.step_samples, sample_rate)]

\* np.clip(v, -1.0, 1.0)
Clip(v) == IF v < -FULL_SCALE THEN -FULL_SCALE ELSE IF v > FULL_SCALE THEN FULL_SCALE ELSE v

\* StereoDelayEffect.process_into(x_in, out): x_in is a block of two channels
sd_process_into(e, x_in) ==
    LET sL     == step_towards(e.delay_ms, e.delay_step_ms)
        sF     == step_towards(e.feedback, e.fb_step)
        dL_now == sL.ret
        fb_now == sF.ret
        dR_now == Min(dL_now + e.offset_ms, e.max_delay_ms - 1)
        xL     == [n \in DOMAIN x_in |-> x_in[n][1]]
        xR     == [n \in DOMAIN x_in |-> x_in[n][2]]
        L      == dl_process_into(e.dlL, xL, dL_now, fb_now)
        R      == dl_process_into(e.dlR, xR, dR_now, fb_now)
    IN  [e   |-> [e EXCEPT !.delay_ms = sL.p, !.feedback = sF.p, !.dlL = L.dl, !.dlR = R.dl],
         out |-> [n \in DOMAIN x_in |->
                    <<Clip(MulQ(e.mix_dry, xL[n]) + MulQ(e.mix_wet, L.wet[n])),
                      Clip(MulQ(e.mix_dry, xR[n]) + MulQ(e.mix_wet, R.wet[n]))>>],
         wetL |-> L.wet, wetR |-> R.wet,
         dL_now |-> dL_now, dR_now |-> dR_now, fb_now |-> fb_now,
         dS_L |-> L.dS, dS_R |-> R.dS, readsL |-> L.reads, readsR |-> R.reads]

\* dio: what went through the effect since the last prepare()
\*   x, wetL, wetR, outL - input samples (mono, fed to both channels), the two
\*                         wet signals and output channel 0, sample by sample
\*   dLs, fbs            - the delay times (ms) and feedback gains applied
\*   last                - what the last process_into applied
\*   prepares, sets      - prepare() and setter calls made so far
NoDio == [x |-> <<>>, wetL |-> <<>>, wetR |-> <<>>, outL |-> <<>>,
          dLs |-> {}, fbs |-> {},
          last |-> [op |-> "none"], prepares |-> 0, sets |-> 0]

IdleDelay == fx = 0 /\ dio = NoDio

\* ---- SpecDelay ----

DelayInit ==
    \E d \in CtorDelayMs : \E f \in CtorFeedback : \E o \in CtorOffsetMs : \E mw \in CtorMixWet :
        /\ fx = StereoDelayEffect(MaxDelayMs, MIX_DRY, mw, o, d, f, FB_STEP, STEP_SAMPLES)
        /\ dio = NoDio

\* chain.add / _ensure_blocksize: prepare(sample_rate, ci, co, blocksize)
DelayPrepare ==
    /\ UNCHANGED NotDelay
    /\ dio.prepares < MaxPrepares
    /\ \E fs \in SampleRates : \E bs \in 1..MaxFrames :
          /\ fx' = sd_prepare(fx, fs, 1, 2, bs)
          /\ dio' = [NoDio EXCEPT !.prepares = dio.prepares + 1, !.sets = dio.sets]

\* the control thread's setters
DelaySetDelayMs ==
    /\ UNCHANGED NotDelay
    /\ dio.sets < MaxSets
    /\ \E v \in SetDelayMs : fx' = [fx EXCEPT !.delay_ms = set_target(@, v)]
    /\ dio' = [dio EXCEPT !.sets = @ + 1]

DelayNudgeDelayMs ==
    /\ UNCHANGED NotDelay
    /\ dio.sets < MaxSets
    /\ \E dv \in NudgeDelayMs : fx' = [fx EXCEPT !.delay_ms = nudge(@, dv)]
    /\ dio' = [dio EXCEPT !.sets = @ + 1]

DelaySetFeedback ==
    /\ UNCHANGED NotDelay
    /\ dio.sets < MaxSets
    /\ \E v \in SetFeedback : fx' = [fx EXCEPT !.feedback = set_target(@, v)]
    /\ dio' = [dio EXCEPT !.sets = @ + 1]

\* One block through process_into.  The chain hands over blocks of the
\* prepared size; the input is mono duplicated to both channels and holds at
\* most one impulse since the last prepare().
DelayProcess ==
    /\ UNCHANGED NotDelay
    /\ fx.blocksize > 0
    /\ Len(dio.x) + fx.blocksize <= MaxSamples
    /\ \E xs \in [1..fx.blocksize -> {0, FULL_SCALE}] :
          /\ Cardinality({n \in 1..Len(dio.x) : dio.x[n] # 0}
                         \cup {Len(dio.x) + n : n \in {m \in 1..fx.blocksize : xs[m] # 0}}) <= 1
          /\ LET r == sd_process_into(fx, [n \in 1..fx.blocksize |-> <<xs[n], xs[n]>>]) IN
                /\ fx' = r.e
                /\ dio' = [x    |-> dio.x \o xs,
                           wetL |-> dio.wetL \o r.wetL,
                           wetR |-> dio.wetR \o r.wetR,
                           outL |-> dio.outL \o [n \in 1..fx.blocksize |-> r.out[n][1]],
                           dLs  |-> dio.dLs \cup {r.dL_now},
                           fbs  |-> dio.fbs \cup {r.fb_now},
                           last |-> [op |-> "process", dL_now |-> r.dL_now, dR_now |-> r.dR_now,
                                     fb_now |-> r.fb_now, dS_L |-> r.dS_L, dS_R |-> r.dS_R,
                                     readsL |-> r.readsL, readsR |-> r.readsR],
                           prepares |-> dio.prepares, sets |-> dio.sets]

DelayNext ==
    DelayPrepare \/ DelaySetDelayMs \/ DelayNudgeDelayMs \/ DelaySetFeedback \/ DelayProcess

\* the impulse response runs: the same effects with no setter call, so that
\* delay time and feedback stay what the constructor was given
ImpulseNext == DelayPrepare \/ DelayProcess

(***************************************************************************)
(* Claims about the delay                                                  *)
(***************************************************************************)

\* C7: for every circular buffer the write pointer is in [0, size), every
\* read index is in [0, size) and the delay in samples applied is between 0
\* and size-1: a request larger than the buffer is clamped to size-1 and no
\* request produces a negative delay.  (The statement of the claim, on the
\* two lines of the stereo delay.)
C7_RingIndices ==
    /\ fx.dlL.w \in 0..(fx.dlL.size - 1)
    /\ fx.dlR.w \in 0..(fx.dlR.size - 1)
    /\ (dio.last.op = "process") =>
          /\ \A n \in DOMAIN dio.last.readsL : dio.last.readsL[n] \in 0..(fx.dlL.size - 1)
          /\ \A n \in DOMAIN dio.last.readsR : dio.last.readsR[n] \in 0..(fx.dlR.size - 1)
          /\ dio.last.dS_L \in 0..(fx.dlL.size - 1)
          /\ dio.last.dS_R \in 0..(fx.dlR.size - 1)

\* C8: with feedback = 0 and a constant delay_ms inside its range, D =
\* floor(sample_rate * delay_ms / 1000): an impulse fed at sample 0 reappears
\* in the wet signal at sample D and at no other sample, and in the output
\* scaled by mix_wet, over any number of blocks and across the wrap of the
\* write pointer.  The right line does the same at its own delay when that
\* delay is inside the range.
C8_ImpulseResponse ==
    LET N  == Len(dio.x)
        d  == fx.delay_ms.current
        dR == Min(d + fx.offset_ms, fx.max_delay_ms - 1)
        D  == TruncDiv(fx.dlL.fs * d, 1000)
        DR == TruncDiv(fx.dlR.fs * dR, 1000)
    IN  ( /\ N >= 1
          /\ dio.x[1] # 0
          /\ \A n \in 2..N : dio.x[n] = 0
          /\ dio.fbs = {0}
          /\ dio.dLs = {d}
          /\ DELAY_LO <= d /\ d <= fx.max_delay_ms - 1 )
        =>
        /\ \A n \in 1..N :
              /\ dio.wetL[n] = (IF n = D + 1 THEN dio.x[1] ELSE 0)
              /\ dio.outL[n] = (IF n = 1 THEN MulQ(fx.mix_dry, dio.x[1])
                                ELSE IF n = D + 1 THEN MulQ(fx.mix_wet, dio.x[1])
                                ELSE 0)
        /\ (DELAY_LO <= dR) =>
              \A n \in 1..N : dio.wetR[n] = (IF n = DR + 1 THEN dio.x[1] ELSE 0)

\* C8 witness: the impulse has come back at sample D, in a later block than
\* the one it was fed in, and the stream has run past the wrap of the write
\* pointer
C8_Witness ==
    LET N == Len(dio.x)
        d == fx.delay_ms.current
        D == TruncDiv(fx.dlL.fs * d, 1000)
    IN  /\ N > fx.dlL.size
        /\ dio.x[1] = FULL_SCALE
        /\ \A n \in 2..N : dio.x[n] = 0
        /\ dio.fbs = {0}
        /\ dio.dLs = {d}
        /\ DELAY_LO <= d /\ d <= fx.max_delay_ms - 1
        /\ D + 1 > fx.blocksize
        /\ dio.wetL[D + 1] = FULL_SCALE
        /\ dio.outL[D + 1] = MulQ(fx.mix_wet, FULL_SCALE)

\* C9: in every block the delay applied to the left line lies in
\* [1, max_delay_ms - 1], the delay applied to the right line is left +
\* offset_ms limited to max_delay_ms - 1, and the feedback gain applied lies
\* in [0, 0.95], for any constructor arguments and setter calls.  (The
\* statement of the claim.)
C9_AppliedInRange ==
    (dio.last.op = "process") =>
        /\ DELAY_LO <= dio.last.dL_now
        /\ dio.last.dL_now <= fx.max_delay_ms - 1
        /\ dio.last.dR_now = (IF dio.last.dL_now + fx.offset_ms > fx.max_delay_ms - 1
                              THEN fx.max_delay_ms - 1
                              ELSE dio.last.dL_now + fx.offset_ms)
        /\ dio.last.dR_now <= fx.max_delay_ms - 1
        /\ FB_LO <= dio.last.fb_now
        /\ dio.last.fb_now <= FB_HI

(***************************************************************************)
(* AudioEngine   (src/be/audioblocks/engine.py)                            *)
(*                                                                         *)
(* The engine builds chains on the control thread and lets the stream      *)
(* callback process blocks on the audio thread.  Chains are objects: eng   *)
(* holds them in a heap (a sequence, the index is the object's identity)   *)
(* and effects_chain is the index of the published chain, 0 for None.  The *)
(* engine never looks into a chain's scratch buffers, which are left out;  *)
(* a chain counts the process() calls made on it.  Parameter values are    *)
(* milliseconds for times and hundredths for seconds and gains.            *)
(***************************************************************************)

\* Bounds of the engine model
MaxBuilds == 2       \* build_chain calls
MaxUpdates == 1      \* update_param calls
MaxCallbacks == 2    \* invocations of the stream callback

\* engine.py: BLOCKSIZE, CHANNELS_IN, CHANNELS_OUT
BLOCKSIZE == 256
CHANNELS_IN == 1
CHANNELS_OUT == 2

\* One record of a chain configuration: config.get('id') and
\* config.get('type'); the id "" stands for a record without an id.  The
\* params of every record are empty, so effects get their default arguments.
Cfg(id, type) == [id |-> id, type |-> type]

\* The configurations handed to build_chain: the five effect types of the
\* front end, a type no effect has, records with and without an id
Configs ==
    { <<>>,
      <<Cfg("a", "delay")>>,
      <<Cfg("a", "reverb"), Cfg("b", "delay")>>,
      <<Cfg("a", "gate"), Cfg("b", "reverb")>>,
      <<Cfg("a", "chorus"), Cfg("", "delay")>>,
      <<Cfg("a", "spectral"), Cfg("b", "octaver")>> }

\* The instance attributes that update_param can reach, with the values the
\* constructors give them for default arguments:
\*   StereoDelayEffect.__init__ (delay.py 48-55), ReverbEffect.__init__
\*   (reverb.py 108-114)
DefaultAttrs(kind) ==
    CASE kind = "delay" ->
            ( "delay_ms"  :> SmoothParam(375, DELAY_LO, 1500 - 1)
           @@ "feedback"  :> SmoothParam(20, FB_LO, FB_HI)
           @@ "mix_dry"   :> 80
           @@ "mix_wet"   :> 80
           @@ "offset_ms" :> 30 )
      [] kind = "reverb" ->
            ( "rt60"      :> SmoothParam(150, 10, 1000)
           @@ "damp"      :> SmoothParam(30, 0, 99)
           @@ "pre_delay" :> SmoothParam(0, 0, 100)
           @@ "mix_dry"   :> 70
           @@ "mix_wet"   :> 50 )
      [] OTHER -> <<>>

\* the attributes that hold a SmoothParam
SmoothAttrs(kind) ==
    CASE kind = "delay"  -> {"delay_ms", "feedback"}
      [] kind = "reverb" -> {"rt60", "damp", "pre_delay"}
      [] OTHER -> {}

\* the names n for which the class defines a method set_<n>
SetterNames(kind) ==
    CASE kind = "delay"  -> {"delay_ms", "feedback"}
      [] kind = "reverb" -> {"rt60", "damp", "pre_delay", "mix", "mix_wet"}
      [] OTHER -> {}

\* ab.StereoDelayEffect() / ab.ReverbEffect(): the effect as the chain sees
\* it, and its attributes
EngineEffect(type, n) ==
    [kind |-> type, id |-> n, size |-> 1, hop |-> INIT_HOP, scratch |-> 1,
     blocks |-> 0, attrs |-> DefaultAttrs(type)]

\* d.get(key, default) of a dict
dict_get(d, key, default) == IF key \in DOMAIN d THEN d[key] ELSE default

\* the attributes after StereoDelayEffect(**params) / ReverbEffect(**params)
\* for params with the keyword arguments of the front end:
\* a keyword given replaces the default of the constructor
EffectAttrs(kind, params) ==
    CASE kind = "delay" ->
            ( "delay_ms"  :> SmoothParam(dict_get(params, "delay_ms", 375),
                                         DELAY_LO, 1500 - 1)
           @@ "feedback"  :> SmoothParam(dict_get(params, "feedback", 20), FB_LO, FB_HI)
           @@ "mix_dry"   :> dict_get(params, "mix_dry", 80)
           @@ "mix_wet"   :> dict_get(params, "mix_wet", 80)
           @@ "offset_ms" :> dict_get(params, "offset_ms", 30) )
      [] kind = "reverb" ->
            ( "rt60"      :> SmoothParam(dict_get(params, "rt60_s", 150), 10, 1000)
           @@ "damp"      :> SmoothParam(dict_get(params, "damp", 30), 0, 99)
           @@ "pre_delay" :> SmoothParam(dict_get(params, "pre_delay_ms", 0), 0, 100)
           @@ "mix_dry"   :> dict_get(params, "mix_dry", 70)
           @@ "mix_wet"   :> dict_get(params, "mix_wet", 50) )
      [] OTHER -> <<>>

\* ab.StereoDelayEffect(**params) / ab.ReverbEffect(**params)
EngineEffectWith(type, n, params) ==
    [EngineEffect(type, n) EXCEPT !.attrs = EffectAttrs(type, params)]

\* ab.PlotDataTap(queue): the telemetry tap, a pass-through effect
PlotDataTap(n) ==
    [kind |-> "tap", id |-> n, size |-> 1, hop |-> INIT_HOP, scratch |-> 1,
     blocks |-> 0, attrs |-> <<>>]

\* ab.EffectsChain(SAMPLE_RATE, CHANNELS_IN, CHANNELS_OUT, BLOCKSIZE)
EngineChain ==
    [sr |-> SAMPLE_RATE, ci |-> CHANNELS_IN, co |-> CHANNELS_OUT, bs |-> BLOCKSIZE,
     effects |-> <<>>, calls |-> 0]

\* EffectsChain.process as the engine sees it: one more call on the chain
chain_process(ch) == [ch EXCEPT !.calls = @ + 1]

\* EffectsChain.warmup: two process() calls on blocks of zeros
warmup(ch) == chain_process(chain_process(ch))

\* AudioEngine.__init__
AudioEngine ==
    [effects_chain |-> 0, effects_map |-> <<>>, last_chain_config |-> <<>>,
     status_count |-> 0, heap |-> <<>>]

\* build_chain that publishes the new chain before it has built it
bc_begin_inPlace(e, effects_config) ==
    [e EXCEPT !.last_chain_config = effects_config,
              !.heap = Append(@, EngineChain),
              !.effects_map = <<>>,
              !.effects_chain = Len(e.heap) + 1]

\* build_chain, lines 33-35: remember the configuration, construct the new
\* chain in a local variable, clear effects_map
bc_begin(e, effects_config) ==
    [e EXCEPT !.last_chain_config = effects_config,
              !.heap = Append(@, EngineChain),
              !.effects_map = <<>>]

\* build_chain, lines 37 and 53: chain.add(ab.PlotDataTap(...))
bc_add_tap(e, c) ==
    [e EXCEPT !.heap[c] = add(@, PlotDataTap(Len(@.effects) + 1))]

\* build_chain, lines 40-51: one pass of the loop over the configuration
bc_record(e, c, config) ==
    LET effect_id   == dict_get(config, "id", "")
        effect_type == dict_get(config, "type", "")
        params      == dict_get(config, "params", <<>>)
    IN  IF effect_type \in {"delay", "reverb"}
        THEN LET pos == Len(e.heap[c].effects) + 1
                 e1  == [e EXCEPT !.heap[c] =
                            add(@, EngineEffectWith(effect_type, pos, params))]
             IN  IF effect_id # ""
                 THEN [e1 EXCEPT !.effects_map =
                          (effect_id :> [chain |-> c, pos |-> pos]) @@ @]
                 ELSE e1
        ELSE e

\* build_chain, line 55: chain.warmup()
bc_warmup(e, c) == [e EXCEPT !.heap[c] = warmup(@)]

\* build_chain, line 56: self.effects_chain = chain
bc_publish(e, c) == [e EXCEPT !.effects_chain = c]

\* the setter set_<name>(value) of an effect
call_setter(f, name, value) ==
    CASE name \in SmoothAttrs(f.kind) ->
            [f EXCEPT !.attrs[name] = set_target(@, value)]
      [] f.kind = "reverb" /\ name = "mix" ->
            [f EXCEPT !.attrs["mix_dry"] = value]
      [] f.kind = "reverb" /\ name = "mix_wet" ->
            [f EXCEPT !.attrs["mix_wet"] = value]

\* AudioEngine.update_param(effect_id, param_name, value)
update_param(e, effect_id, param_name, value) ==
    IF effect_id \notin DOMAIN e.effects_map
    THEN e
    ELSE LET ref == e.effects_map[effect_id]
             f   == e.heap[ref.chain].effects[ref.pos]
         IN  IF param_name \in SetterNames(f.kind)
             THEN [e EXCEPT !.heap[ref.chain].effects[ref.pos] =
                      call_setter(f, param_name, value)]
             ELSE IF param_name \in DOMAIN f.attrs /\ param_name \in SmoothAttrs(f.kind)
             THEN [e EXCEPT !.heap[ref.chain].effects[ref.pos].attrs[param_name] =
                      set_target(@, value)]
             ELSE e


\* The inputs of update_param: an id of the map or not, the control names of
\* the front end (frontend.py 63-95), a name nothing has, and a value that
\* lies inside every range and differs from every default
ParamIds == {"a", "b", "zz"}
ParamNames ==
    {"feedback", "delay_ms", "mix_dry", "mix_wet", "offset_ms",
     "rt60_s", "damp", "pre_delay_ms", "nothing"}
ParamValue == 60

\* frontend.py, effect_params: the smoothed parameter each control of the
\* front end stands for, by effect type
ControlParam(kind) ==
    CASE kind = "delay"  -> ("feedback" :> "feedback" @@ "delay_ms" :> "delay_ms")
      [] kind = "reverb" -> ("rt60_s" :> "rt60" @@ "damp" :> "damp"
                             @@ "pre_delay_ms" :> "pre_delay")
      [] OTHER -> <<>>

\* the control thread is between two commands (backend.py 102-107 handles
\* one command after the other)
CtlIdle == ctl.pc = "idle"

EngineInit ==
    /\ eng = AudioEngine
    /\ ctl = [pc |-> "idle", cfg |-> <<>>, k |-> 0, chain |-> 0,
              builds |-> 0, updates |-> 0, last |-> [op |-> "none"]]
    /\ aud = [pc |-> "idle", calls |-> 0, last |-> [chain |-> 0]]

\* build_chain(effects_config), lines 33-35
BuildChainBegin ==
    /\ CtlIdle
    /\ ctl.builds < MaxBuilds
    /\ \E cfg \in Configs :
          /\ eng' = bc_begin(eng, cfg)
          /\ ctl' = [ctl EXCEPT !.pc = "tap_in", !.cfg = cfg, !.k = 1,
                                !.chain = Len(eng.heap) + 1,
                                !.builds = @ + 1]
    /\ UNCHANGED aud
    /\ UNCHANGED NotEngine

\* line 37: the input tap
BuildChainTapIn ==
    /\ ctl.pc = "tap_in"
    /\ eng' = bc_add_tap(eng, ctl.chain)
    /\ ctl' = [ctl EXCEPT !.pc = "loop"]
    /\ UNCHANGED aud
    /\ UNCHANGED NotEngine

\* lines 39-51: the next record of the configuration
BuildChainRecord ==
    /\ ctl.pc = "loop"
    /\ ctl.k <= Len(ctl.cfg)
    /\ eng' = bc_record(eng, ctl.chain, ctl.cfg[ctl.k])
    /\ ctl' = [ctl EXCEPT !.k = @ + 1]
    /\ UNCHANGED aud
    /\ UNCHANGED NotEngine

\* line 53: the output tap, after the last record
BuildChainTapOut ==
    /\ ctl.pc = "loop"
    /\ ctl.k > Len(ctl.cfg)
    /\ eng' = bc_add_tap(eng, ctl.chain)
    /\ ctl' = [ctl EXCEPT !.pc = "warmup"]
    /\ UNCHANGED aud
    /\ UNCHANGED NotEngine

\* line 55
BuildChainWarmup ==
    /\ ctl.pc = "warmup"
    /\ eng' = bc_warmup(eng, ctl.chain)
    /\ ctl' = [ctl EXCEPT !.pc = "publish"]
    /\ UNCHANGED aud
    /\ UNCHANGED NotEngine

\* line 56, and the return
BuildChainPublish ==
    /\ ctl.pc = "publish"
    /\ eng' = bc_publish(eng, ctl.chain)
    /\ ctl' = [ctl EXCEPT !.pc = "idle",
                          !.last = [op |-> "build_chain", cfg |-> ctl.cfg]]
    /\ UNCHANGED aud
    /\ UNCHANGED NotEngine

\* update_param(effect_id, param_name, value); nothing in it raises: the
\* unknown id returns at line 121, an unknown name ends in the warning of
\* line 132
UpdateParam ==
    /\ CtlIdle
    /\ ctl.updates < MaxUpdates
    /\ \E effect_id \in ParamIds, param_name \in ParamNames :
          /\ eng' = update_param(eng, effect_id, param_name, ParamValue)
          /\ ctl' = [ctl EXCEPT !.updates = @ + 1,
                                !.last = [op |-> "update_param", id |-> effect_id,
                                          name |-> param_name, value |-> ParamValue,
                                          pre |-> eng, raised |-> FALSE,
                                          post |-> update_param(eng, effect_id,
                                                       param_name, ParamValue)]]
    /\ UNCHANGED aud
    /\ UNCHANGED NotEngine

\* the stream callback, lines 140-143: count a status, test effects_chain;
\* without a chain, line 146 fills outdata with zeros and the callback ends
CallbackTest ==
    /\ aud.pc = "idle"
    /\ aud.calls < MaxCallbacks
    /\ \E status \in BOOLEAN :
          eng' = [eng EXCEPT !.status_count = IF status THEN @ + 1 ELSE @]
    /\ aud' = IF eng.effects_chain # 0
              THEN [aud EXCEPT !.pc = "process"]
              ELSE [aud EXCEPT !.calls = @ + 1, !.last = [chain |-> 0]]
    /\ UNCHANGED ctl
    /\ UNCHANGED NotEngine

\* the stream callback, line 144: read effects_chain again and process the
\* block with that chain.  The record of the call keeps the chain as it was
\* when the call began and whether build_chain was still working on it.
CallbackProcess ==
    /\ aud.pc = "process"
    /\ LET c == eng.effects_chain
       IN  /\ eng' = [eng EXCEPT !.heap[c] = chain_process(@)]
           /\ aud' = [aud EXCEPT !.pc = "idle", !.calls = @ + 1,
                                 !.last = [chain |-> c, obj |-> eng.heap[c],
                                           building |-> (~CtlIdle /\ ctl.chain = c),
                                           sees |-> Len(eng.heap)]]
    /\ UNCHANGED ctl
    /\ UNCHANGED NotEngine

NextEngine ==
    \/ BuildChainBegin
    \/ BuildChainTapIn
    \/ BuildChainRecord
    \/ BuildChainTapOut
    \/ BuildChainWarmup
    \/ BuildChainPublish
    \/ UpdateParam

NextRebuild ==
    \/ BuildChainBegin
    \/ BuildChainTapIn
    \/ BuildChainRecord
    \/ BuildChainTapOut
    \/ BuildChainWarmup
    \/ BuildChainPublish
    \/ CallbackTest
    \/ CallbackProcess

\* a chain that build_chain has finished: the input tap first, the output
\* tap last, warmed up
CompleteChain(ch) ==
    /\ Len(ch.effects) >= 2
    /\ ch.effects[1].kind = "tap"
    /\ ch.effects[Len(ch.effects)].kind = "tap"
    /\ ch.calls >= 2

\* C11: while build_chain runs on the control thread, every block the audio
\* callback processes goes through a completely built chain, the previous
\* one or the new one, never through the chain that is being built.
C11_CallbackSeesBuiltChain ==
    (aud.last.chain # 0) =>
        /\ ~aud.last.building
        /\ CompleteChain(aud.last.obj)

\* C11 witness: the callback has processed a block with the previous chain
\* while build_chain was building the next one
C11_Witness ==
    /\ aud.last.chain = 1
    /\ aud.pc = "idle"
    /\ aud.last.sees = 2
    /\ ~CtlIdle
    /\ ctl.chain = 2

\* the effects between the two taps of a chain
Inner(ch) == SubSeq(ch.effects, 2, Len(ch.effects) - 1)

\* the records of a configuration that name one of the five effect types
KnownRecords(cfg) == SelectSeq(cfg, LAMBDA r : r.type \in Kinds)

\* C14: after build_chain the effects between the input tap and the output
\* tap correspond one to one, in order, to the records of the configuration
\* whose type is delay, reverb, gate, spectral or octaver.
C14_ChainMatchesConfig ==
    (ctl.last.op = "build_chain" /\ CtlIdle) =>
        LET ch   == eng.heap[eng.effects_chain]
            want == KnownRecords(ctl.last.cfg)
        IN  /\ CompleteChain(ch)
            /\ Len(Inner(ch)) = Len(want)
            /\ \A k \in 1..Len(want) : Inner(ch)[k].kind = want[k].type

\* the names update_param can do nothing with for an effect of this kind:
\* no control of the front end, no setter, no attribute
UnknownName(kind, name) ==
    /\ name \notin DOMAIN ControlParam(kind)
    /\ name \notin SetterNames(kind)
    /\ name \notin DOMAIN DefaultAttrs(kind)

\* C15: update_param(id, name, value) ends in set_target(value) on the
\* smoothed parameter the named control stands for; an unknown id or an
\* unknown name changes nothing and raises nothing.
C15_UpdateReachesParam ==
    (ctl.last.op = "update_param") =>
        LET u    == ctl.last
            pre  == u.pre
            post == u.post
        IN  /\ ~u.raised
            /\ IF u.id \notin DOMAIN pre.effects_map
               THEN post = pre
               ELSE LET ref  == pre.effects_map[u.id]
                        f    == pre.heap[ref.chain].effects[ref.pos]
                        g    == post.heap[ref.chain].effects[ref.pos]
                    IN  /\ UnknownName(f.kind, u.name) => post = pre
                        /\ u.name \in DOMAIN ControlParam(f.kind) =>
                             g.attrs[ControlParam(f.kind)[u.name]] =
                                set_target(f.attrs[ControlParam(f.kind)[u.name]], u.value)


(***************************************************************************)
(* One SmoothParam shared by two threads   (src/audioblocks/core.py 44-66) *)
(*                                                                         *)
(* The control thread calls set_target and nudge, the audio thread calls   *)
(* step_towards, each one statement at a time.  cp.p is the shared object, *)
(* cp.ct and cp.au are the two threads.  cp.seq is the same parameter with *)
(* every call applied in one piece, in the order in which the calls take   *)
(* the lock; a call that raises before the lock leaves it alone.           *)
(***************************************************************************)

\* Bounds of the interleaving model
MaxRaceCalls == 2    \* calls per thread
MaxRaceArg == 2      \* largest argument of a call

RaceArgs == (-MaxRaceArg)..MaxRaceArg

\* threading.Lock.acquire that never waits
CanAcquire_noLock(p) == TRUE

\* with self._lock: the thread goes on only when the lock is free
CanAcquire(p) == ~p.locked

RaceInit ==
    cp = [p   |-> SmoothParam(0, -MaxRaceArg, MaxRaceArg),
          seq |-> SmoothParam(0, -MaxRaceArg, MaxRaceArg),
          ct  |-> [pc |-> "idle", op |-> "none", arg |-> 0, tmp |-> 0, done |-> 0],
          au  |-> [pc |-> "idle", arg |-> 0, delta |-> 0, ret |-> 0,
                   raised |-> FALSE, done |-> 0,
                   lin |-> SmoothParam(0, -MaxRaceArg, MaxRaceArg), seq_ret |-> 0]]

\* the control thread enters set_target(v) or nudge(dv)
CtlCall ==
    /\ cp.ct.pc = "idle"
    /\ cp.ct.done < MaxRaceCalls
    /\ \E op \in {"set_target", "nudge"}, v \in RaceArgs :
          cp' = [cp EXCEPT !.ct.pc = "acquire", !.ct.op = op, !.ct.arg = v]
    /\ UNCHANGED NotRace

\* with self._lock (entry)
CtlAcquire ==
    /\ cp.ct.pc = "acquire"
    /\ CanAcquire(cp.p)
    /\ cp' = [cp EXCEPT !.p.locked = TRUE,
                        !.ct.pc = IF cp.ct.op = "nudge" THEN "read" ELSE "write",
                        !.seq = IF cp.ct.op = "nudge"
                                THEN nudge(cp.seq, cp.ct.arg)
                                ELSE set_target(cp.seq, cp.ct.arg)]
    /\ UNCHANGED NotRace

\* nudge: the read of self.target in self.target + float(dv)
CtlRead ==
    /\ cp.ct.pc = "read"
    /\ cp' = [cp EXCEPT !.ct.tmp = cp.p.target + cp.ct.arg, !.ct.pc = "write"]
    /\ UNCHANGED NotRace

\* self.target = min(max(..., self.lo), self.hi)
CtlWrite ==
    /\ cp.ct.pc = "write"
    /\ LET v == IF cp.ct.op = "nudge" THEN cp.ct.tmp ELSE cp.ct.arg
       IN  cp' = [cp EXCEPT !.p.target = Min(Max(v, cp.p.lo), cp.p.hi),
                            !.ct.pc = "release"]
    /\ UNCHANGED NotRace

\* with self._lock (exit), and the return
CtlRelease ==
    /\ cp.ct.pc = "release"
    /\ cp' = [cp EXCEPT !.p.locked = FALSE, !.ct.pc = "idle", !.ct.done = @ + 1]
    /\ UNCHANGED NotRace

\* the audio thread enters step_towards(max_step): a negative max_step
\* raises before the lock is touched
AudCall ==
    /\ cp.au.pc = "idle"
    /\ cp.au.done < MaxRaceCalls
    /\ \E max_step \in (-1)..MaxRaceArg :
          cp' = IF max_step < 0
                THEN [cp EXCEPT !.au.arg = max_step, !.au.raised = TRUE,
                                !.au.done = @ + 1]
                ELSE [cp EXCEPT !.au.arg = max_step, !.au.raised = FALSE,
                                !.au.pc = "acquire"]
    /\ UNCHANGED NotRace

\* with self._lock (entry)
AudAcquire ==
    /\ cp.au.pc = "acquire"
    /\ CanAcquire(cp.p)
    /\ cp' = [cp EXCEPT !.p.locked = TRUE, !.au.pc = "delta",
                        !.au.lin = cp.seq,
                        !.seq = step_towards(cp.seq, cp.au.arg).p,
                        !.au.seq_ret = step_towards(cp.seq, cp.au.arg).ret]
    /\ UNCHANGED NotRace

\* delta = self.target - self.current
AudDelta ==
    /\ cp.au.pc = "delta"
    /\ cp' = [cp EXCEPT !.au.delta = cp.p.target - cp.p.current, !.au.pc = "add"]
    /\ UNCHANGED NotRace

\* self.current += min(max(delta, -max_step), max_step)
AudAdd ==
    /\ cp.au.pc = "add"
    /\ LET cur == cp.p.current + Min(Max(cp.au.delta, -cp.au.arg), cp.au.arg)
       IN  cp' = [cp EXCEPT !.p.current = cur, !.au.ret = cur, !.au.pc = "release"]
    /\ UNCHANGED NotRace

\* return self.current, and with self._lock (exit)
AudRelease ==
    /\ cp.au.pc = "release"
    /\ cp' = [cp EXCEPT !.p.locked = FALSE, !.au.pc = "idle", !.au.done = @ + 1]
    /\ UNCHANGED NotRace

NextRace ==
    \/ CtlCall
    \/ CtlAcquire
    \/ CtlRead
    \/ CtlWrite
    \/ CtlRelease
    \/ AudCall
    \/ AudAcquire
    \/ AudDelta
    \/ AudAdd
    \/ AudRelease

\* the thread is not between taking and giving back the lock
CtlOutside == cp.ct.pc \in {"idle", "acquire"}
AudOutside == cp.au.pc \in {"idle", "acquire"}

\* C12: with set_target/nudge on the control thread and step_towards on the
\* audio thread, every interleaving gives what the calls give when run one
\* after the other in some order (here: the order of taking the lock): no
\* nudge is lost, step_towards computes its step from a target no call is
\* in the middle of changing and returns what the sequential call returns,
\* and the lock is free whenever no call is inside it.
C12_Linearizable ==
    /\ CtlOutside => cp.p.target = cp.seq.target
    /\ AudOutside => cp.p.current = cp.seq.current
    /\ (CtlOutside /\ AudOutside) => ~cp.p.locked
    /\ ~(~CtlOutside /\ ~AudOutside)
    /\ cp.au.pc \in {"add", "release"} =>
          cp.au.delta = cp.au.lin.target - cp.au.lin.current
    /\ (cp.au.pc = "idle" /\ cp.au.done > 0 /\ ~cp.au.raised) =>
          cp.au.ret = cp.au.seq_ret

\* C12 witness: step_towards holds the lock and has computed its step while
\* a nudge waits for the lock, after an earlier nudge has changed the target
C12_Witness ==
    /\ cp.au.pc = "add"
    /\ cp.au.delta # 0
    /\ cp.ct.pc = "acquire"
    /\ cp.ct.op = "nudge"
    /\ cp.ct.arg # 0
    /\ cp.ct.done = 1
    /\ cp.p.locked


(***************************************************************************)
(* ReverbEffect   (src/be/audioblocks/reverb.py)                           *)
(*                                                                         *)
(* Two sides, each a bank of damped combs summed into one column followed  *)
(* by a chain of allpass stages, working on the scratch columns _tmp1,     *)
(* _sumL, _sumR, _preL, _preR.  Samples are hundredths of full scale,      *)
(* gains are hundredths, times are hundredths of a millisecond; a product  *)
(* with a gain is rounded down to a whole unit.  A column is a sequence of *)
(* samples; circular buffers keep the code's indices, shifted by one.      *)
(***************************************************************************)

\* Bounds of the reverb model
MaxStages == 3       \* allpass stages per side
MaxCombs == 2        \* combs per side
MaxRevFrames == 2    \* frames of a block
MaxRevBlocks == 2    \* process_into calls

\* ReverbEffect.__init__, default arguments
AP_GAIN == 60
JITTER_MS == 30
REV_MAX_DELAY_MS == 20000
REV_MIX_DRY == 70
REV_MIX_WET == 50
RT60_S == 150
DAMP == 30
RT60_STEP == 5
DAMP_STEP == 2

\* constructor arguments of the reverbs of this model: every comb and every
\* allpass line 1 ms long, a pre-delay of at most 1 ms
LINE_MS == 100
MAX_PRE_MS == 1

\* the sample rates of prepare(): lines of one sample on both sides, or of
\* two samples on the left and one on the right
RevRates == {1000, 2000}

Scale(gain, v) == (gain * v) \div FULL_SCALE

ZeroCol(n) == [i \in 1..n |-> 0]

AddCol(a, b) == [i \in 1..Len(a) |-> a[i] + b[i]]

\* pure_delay_kernel, one sample: st = [buf, w, y]
pure_delay_step(st, x, dS) ==
    LET size == Len(st.buf)
        r    == (st.w - dS) % size
        y    == IF dS = 0 THEN x ELSE st.buf[r + 1]
    IN  [buf |-> [st.buf EXCEPT ![st.w + 1] = x],
         w   |-> (st.w + 1) % size,
         y   |-> Append(st.y, y)]

RECURSIVE pure_delay_run(_, _, _, _)
pure_delay_run(st, x_block, dS, n) ==
    IF n > Len(x_block) THEN st
    ELSE pure_delay_run(pure_delay_step(st, x_block[n], dS), x_block, dS, n + 1)

\* pure_delay_kernel(buf, w, size, x_block, y_out, dS): the line afterwards
\* and the column written to y_out
pure_delay_kernel(line, x_block, dS) ==
    pure_delay_run([buf |-> line.buf, w |-> line.w, y |-> <<>>], x_block, dS, 1)

\* comb_damped_kernel, one sample: st = [buf, w, lp, y]
comb_damped_step(st, x, dS, g, h) ==
    LET size   == Len(st.buf)
        r      == (st.w - dS) % size
        y      == st.buf[r + 1]
        damped == ((FULL_SCALE - h) * y + h * st.lp) \div FULL_SCALE
    IN  [buf |-> [st.buf EXCEPT ![st.w + 1] = x + Scale(g, damped)],
         w   |-> (st.w + 1) % size,
         lp  |-> damped,
         y   |-> Append(st.y, y)]

RECURSIVE comb_damped_run(_, _, _, _, _, _)
comb_damped_run(st, x_block, dS, g, h, n) ==
    IF n > Len(x_block) THEN st
    ELSE comb_damped_run(comb_damped_step(st, x_block[n], dS, g, h),
                         x_block, dS, g, h, n + 1)

\* comb_damped_kernel(buf, w, size, x_block, y_out, dS, g, h, lp_prev)
comb_damped_kernel(c, x_block, g, h) ==
    comb_damped_run([buf |-> c.buf, w |-> c.w, lp |-> c.lp, y |-> <<>>],
                    x_block, c.L, g, h, 1)

\* allpass_kernel, one sample: st = [buf, w, y]
allpass_step(st, x, dS, a) ==
    LET size    == Len(st.buf)
        r       == (st.w - dS) % size
        delayed == st.buf[r + 1]
        y       == delayed - Scale(a, x)
    IN  [buf |-> [st.buf EXCEPT ![st.w + 1] = x + Scale(a, y)],
         w   |-> (st.w + 1) % size,
         y   |-> Append(st.y, y)]

RECURSIVE allpass_run(_, _, _, _, _)
allpass_run(st, x_block, dS, a, n) ==
    IF n > Len(x_block) THEN st
    ELSE allpass_run(allpass_step(st, x_block[n], dS, a), x_block, dS, a, n + 1)

\* allpass_kernel(buf, w, size, x_block, y_out, dS, a)
allpass_kernel(a, x_block, gain) ==
    allpass_run([buf |-> a.buf, w |-> a.w, y |-> <<>>], x_block, a.L, gain, 1)

\* _mk_side: the length in samples of a line of base_ms with this jitter,
\* int(sample_rate * min(base_ms + jitter, max_delay_ms - 1) / 1000), at least 1
LineSamples(sample_rate, base_ms, jitter) ==
    Max(1, (sample_rate * Min(base_ms + jitter, REV_MAX_DELAY_MS - 100)) \div 100000)

\* _mk_side(sample_rate, jitter): nc combs and na allpass lines, all zero
mk_side(sample_rate, jitter, nc, na) ==
    LET Lc == LineSamples(sample_rate, LINE_MS, jitter)
        La == LineSamples(sample_rate, LINE_MS, jitter \div 5)
    IN  [comb |-> [k \in 1..nc |-> [buf |-> ZeroCol(Lc + 1), w |-> 0, L |-> Lc, lp |-> 0]],
         ap   |-> [k \in 1..na |-> [buf |-> ZeroCol(La + 1), w |-> 0, L |-> La]]]

\* _g_from_rt60(L_samples, fs, rt60_s) = 10 ** (-3 (L/fs) / max(0.001, rt60)):
\* for rt60 = 1.5 s and lines of at most 1 ms, between 0.9954 and 0.9977
g_from_rt60(L_samples, fs, rt60_s) == 99

\* ReverbEffect(comb_times_ms = nc times 1 ms, allpass_times_ms = na times
\* 1 ms, max_pre_delay_ms = 1) followed by prepare(sample_rate, 2, 2,
\* blocksize)
ReverbPrepared(nc, na, sample_rate, blocksize) ==
    [fs |-> sample_rate, nc |-> nc, na |-> na,
     rt60 |-> SmoothParam(RT60_S, 10, 1000),
     damp |-> SmoothParam(DAMP, 0, 99),
     pre_delay |-> SmoothParam(0, 0, MAX_PRE_MS * 100),
     L |-> mk_side(sample_rate, JITTER_MS, nc, na),
     R |-> mk_side(sample_rate, -JITTER_MS, nc, na),
     preL |-> [buf |-> ZeroCol(Max(1, (sample_rate * MAX_PRE_MS) \div 1000 + 1)), w |-> 0],
     preR |-> [buf |-> ZeroCol(Max(1, (sample_rate * MAX_PRE_MS) \div 1000 + 1)), w |-> 0],
     s |-> [n \in {"_tmp1", "_tmp2", "_sumL", "_sumR", "_preL", "_preR"} |->
               ZeroCol(blocksize)]]

\* process_into, the comb loops (lines 236-241 and 257-262): every comb from
\* the k-th on writes its output to _tmp1, which is added to the sum column;
\* m = [s, lines] holds the scratch columns and the combs of the side
RECURSIVE comb_bank(_, _, _, _, _, _, _)
comb_bank(m, k, pre, sum, fs, rt60_now, damp_now) ==
    IF k > Len(m.lines) THEN m
    ELSE LET c  == m.lines[k]
             g  == g_from_rt60(c.L, fs, rt60_now)
             r  == comb_damped_kernel(c, m.s[pre], g, damp_now)
             s1 == [m.s EXCEPT !["_tmp1"] = r.y]
             s2 == [s1 EXCEPT ![sum] = AddCol(s1[sum], s1["_tmp1"])]
         IN  comb_bank([s |-> s2,
                        lines |-> [m.lines EXCEPT ![k] =
                                      [buf |-> r.buf, w |-> r.w, L |-> c.L, lp |-> r.lp]]],
                       k + 1, pre, sum, fs, rt60_now, damp_now)

\* process_into, the allpass loops (lines 244-252 and 265-272): every stage
\* from the k-th on reads the column src and writes the column dst, then the
\* two names are swapped; m = [s, lines, src, dst]
RECURSIVE ap_chain(_, _)
ap_chain(m, k) ==
    IF k > Len(m.lines) THEN m
    ELSE LET a == m.lines[k]
             r == allpass_kernel(a, m.s[m.src], AP_GAIN)
         IN  ap_chain([s |-> [m.s EXCEPT ![m.dst] = r.y],
                       lines |-> [m.lines EXCEPT ![k] =
                                     [buf |-> r.buf, w |-> r.w, L |-> a.L]],
                       src |-> m.dst, dst |-> m.src],
                      k + 1)

\* ReverbEffect.process_into(x_in, out) for a block of two channels.  yL and
\* yR are names of scratch columns, as in the code, and are read at the mix;
\* left and right are what the two allpass chains had written when each of
\* them finished.
rev_process_into(e, x_in) ==
    LET N     == Len(x_in)
        s0    == IF Len(e.s["_sumL"]) # N
                 THEN [n \in DOMAIN e.s |-> ZeroCol(N)]
                 ELSE e.s
        rt60  == step_towards(e.rt60, RT60_STEP)
        damp  == step_towards(e.damp, DAMP_STEP)
        pre   == step_towards(e.pre_delay, (100000 * STEP_SAMPLES) \div e.fs)
        dS0   == (e.fs * pre.ret) \div 100000
        pre_dS == IF dS0 >= Len(e.preL.buf) THEN Len(e.preL.buf) - 1 ELSE dS0
        xL    == [i \in 1..N |-> x_in[i][1]]
        xR    == [i \in 1..N |-> x_in[i][2]]
        pl    == pure_delay_kernel(e.preL, xL, pre_dS)
        pr    == pure_delay_kernel(e.preR, xR, pre_dS)
        s1    == [s0 EXCEPT !["_preL"] = pl.y, !["_preR"] = pr.y, !["_sumL"] = ZeroCol(N)]
        cL    == comb_bank([s |-> s1, lines |-> e.L.comb], 1, "_preL", "_sumL",
                           e.fs, rt60.ret, damp.ret)
        aL    == ap_chain([s |-> cL.s, lines |-> e.L.ap,
                           src |-> "_sumL", dst |-> "_tmp1"], 1)
        yL    == aL.src
        s2    == [aL.s EXCEPT !["_sumR"] = ZeroCol(N)]
        cR    == comb_bank([s |-> s2, lines |-> e.R.comb], 1, "_preR", "_sumR",
                           e.fs, rt60.ret, damp.ret)
        aR    == ap_chain([s |-> cR.s, lines |-> e.R.ap,
                           src |-> "_sumR", dst |-> "_tmp1"], 1)
        yR    == aR.src
        sF    == aR.s
    IN  [e |-> [e EXCEPT !.rt60 = rt60.p, !.damp = damp.p, !.pre_delay = pre.p,
                         !.preL = [buf |-> pl.buf, w |-> pl.w],
                         !.preR = [buf |-> pr.buf, w |-> pr.w],
                         !.L = [comb |-> cL.lines, ap |-> aL.lines],
                         !.R = [comb |-> cR.lines, ap |-> aR.lines],
                         !.s = sF],
         out |-> [i \in 1..N |->
                    << Clip((REV_MIX_DRY * xL[i] + REV_MIX_WET * sF[yL][i]) \div FULL_SCALE),
                       Clip((REV_MIX_DRY * xR[i] + REV_MIX_WET * sF[yR][i]) \div FULL_SCALE) >>],
         yL |-> sF[yL], yR |-> sF[yR],
         left |-> aL.s[aL.src], right |-> aR.s[aR.src]]

\* the stereo blocks handed to the reverb
RevBlocks ==
    UNION {[1..n -> {<<l, r>> : l, r \in {0, FULL_SCALE}}] : n \in 1..MaxRevFrames}

IdleReverbState == [op |-> "none"]

ReverbInit ==
    \E nc \in 0..MaxCombs, na \in 0..MaxStages, sample_rate \in RevRates,
       blocksize \in 1..MaxRevFrames :
        rv = [e |-> ReverbPrepared(nc, na, sample_rate, blocksize),
              last |-> IdleReverbState, blocks |-> 0]

\* one call of process_into
RevProcess ==
    /\ rv.blocks < MaxRevBlocks
    /\ \E x_in \in RevBlocks :
          LET r == rev_process_into(rv.e, x_in)
          IN  rv' = [e |-> r.e,
                     last |-> [op |-> "process", x_in |-> x_in, out |-> r.out,
                               yL |-> r.yL, yR |-> r.yR,
                               left |-> r.left, right |-> r.right],
                     blocks |-> rv.blocks + 1]
    /\ UNCHANGED NotReverb

NextReverb == RevProcess

\* C19: for any number of allpass stages, the wet signal mixed into channel
\* 0 is the output of the left chain and the wet signal mixed into channel 1
\* is the output of the right chain: the right side does not overwrite the
\* left result before the mix.
C19_WetSidesKept ==
    (rv.last.op = "process") =>
        /\ rv.last.yL = rv.last.left
        /\ rv.last.yR = rv.last.right
        /\ \A i \in 1..Len(rv.last.out) :
              /\ rv.last.out[i][1] =
                    Clip((REV_MIX_DRY * rv.last.x_in[i][1]
                          + REV_MIX_WET * rv.last.left[i]) \div FULL_SCALE)
              /\ rv.last.out[i][2] =
                    Clip((REV_MIX_DRY * rv.last.x_in[i][2]
                          + REV_MIX_WET * rv.last.right[i]) \div FULL_SCALE)


(***************************************************************************)
(* OctaverEffect   (src/be/audioblocks/octaver.py)                         *)
(*                                                                         *)
(* A circular buffer of `size` samples read by two taps half a window      *)
(* apart, each interpolated with a cubic and weighted with a Hann window.  *)
(* Samples and gains are hundredths.  The phasor is kept as a whole number *)
(* of steps of 1/(2 size), which is the step of one sample at -12          *)
(* semitones, so that every read position is a whole or a half sample and  *)
(* the cubic is computed exactly, in sixteenths.  The effect is prepared   *)
(* for the smallest window, 16 samples, and processes mono blocks.         *)
(***************************************************************************)

\* Bounds of the octaver model
OctFrames == 4       \* frames of a block
MaxOctBlocks == 3    \* process_into calls after the warmup

\* prepare(): a sample rate for which the window is the minimum of 16 samples
OctRate == 400

\* the semitones this model tabulates 2 ** (semi / 12) for, as halves, and
\* the mix the effect is constructed with: the wet signal alone
Semitones == {-12, 0}
Mixes == {FULL_SCALE}

\* 2.0 ** (semi / 12.0), in halves, for the whole octaves this model uses
RatioHalves(semi) ==
    CASE semi = -12 -> 1
      [] semi = 0   -> 2
      [] semi = 12  -> 4
      [] semi = 24  -> 8
      [] semi = 60  -> 64

\* 0.5 * (1.0 - cos(2 pi p)) for p = k / 64, in thousandths
HANN ==
    << 0, 2, 10, 22, 38, 59, 84, 113, 146, 183, 222, 264, 309, 355, 402, 451,
       500, 549, 598, 645, 691, 736, 778, 817, 854, 887, 916, 941, 962, 978, 990, 998,
       1000, 998, 990, 978, 962, 941, 916, 887, 854, 817, 778, 736, 691, 645, 598, 549,
       500, 451, 402, 355, 309, 264, 222, 183, 146, 113, 84, 59, 38, 22, 10, 2 >>

\* the gain of a tap whose phasor is k / (2 size), for a window of 16 or of
\* 32 samples; the cosine has period 1
HannGain(k, size) == HANN[((k * (Len(HANN) \div (2 * size))) % Len(HANN)) + 1]

\* cubic_interp(x, y0, y1, y2, y3) for x = x2 / 2, times 16:
\* c1, c2, c3 of the code are C1 / 2, C2 / 2, C3 / 2
cubic_interp(x2, y0, y1, y2, y3) ==
    LET C1 == y2 - y0
        C2 == 2 * y0 - 5 * y1 + 4 * y2 - y3
        C3 == (y3 - y0) + 3 * (y1 - y2)
    IN  C3 * x2 * x2 * x2 + 2 * C2 * x2 * x2 + 4 * C1 * x2 + 16 * y1

\* one tap of pitch_shift_kernel_cubic: the interpolated sample, times 16,
\* read p / (2 size) windows behind the write position
\* raw_idx of a tap, in half samples
TapPos(w, size, p) == 2 * w - p + 2 * size

Tap(buf, w, size, p) ==
    LET raw2  == TapPos(w, size, p)
        floor == TruncDiv(raw2, 2)
        frac2 == raw2 - 2 * floor
    IN  cubic_interp(frac2, buf[((floor - 1) % size) + 1], buf[(floor % size) + 1],
                     buf[((floor + 1) % size) + 1], buf[((floor + 2) % size) + 1])

\* i_0, i_1, i_2, i_3 of that tap: the four buffer indices it reads
TapIndices(w, size, p) ==
    LET floor == TruncDiv(TapPos(w, size, p), 2)
    IN  {(floor - 1) % size, floor % size, (floor + 1) % size, (floor + 2) % size}

\* p2 = phasor + 0.5, less 1.0 when that reaches 1.0
Phasor2(p1, size) == IF p1 + size >= 2 * size THEN p1 - size ELSE p1 + size

\* pitch_shift_kernel_cubic, one sample: st = [buf, w, phasor, y]; the
\* weighted sum of the two taps is rounded down to a whole hundredth
pitch_shift_step(st, size, val_in, step) ==
    LET buf == [st.buf EXCEPT ![st.w + 1] = val_in]
        p1  == st.phasor
        p2  == Phasor2(p1, size)
        wet == (Tap(buf, st.w, size, p1) * HannGain(p1, size)
                + Tap(buf, st.w, size, p2) * HannGain(p2, size)) \div 16000
        ph  == st.phasor + step
    IN  [buf |-> buf,
         w |-> IF st.w + 1 >= size THEN 0 ELSE st.w + 1,
         phasor |-> IF ph >= 2 * size THEN ph - 2 * size
                    ELSE IF ph < 0 THEN ph + 2 * size ELSE ph,
         y |-> Append(st.y, wet)]

RECURSIVE pitch_shift_run(_, _, _, _, _)
pitch_shift_run(st, size, x_in, step, i) ==
    IF i > Len(x_in) THEN st
    ELSE pitch_shift_run(pitch_shift_step(st, size, x_in[i], step), size, x_in, step, i + 1)

\* pitch_shift_kernel_cubic(buf, w, size, x_in, x_out, phasor, step)
pitch_shift_kernel_cubic(e, x_in, step) ==
    pitch_shift_run([buf |-> e.buf, w |-> e.w, phasor |-> e.phasor, y |-> <<>>],
                    e.size, x_in, step, 1)

\* OctaverEffect(semitones, mix) followed by prepare(sample_rate, 1, 1, _)
OctaverPrepared(semi, mix, sample_rate) ==
    LET req_size == Max(TruncDiv(sample_rate * WINDOW_MS, 1000), MIN_OCT_SIZE)
    IN  [semitones |-> SmoothParam(semi, -24, 24),
         mix |-> SmoothParam(mix, 0, FULL_SCALE),
         size |-> req_size, buf |-> [i \in 1..req_size |-> 0], w |-> 0, phasor |-> 0]

\* step of process_into for the semitones of this block:
\* (1 - ratio) / size is (2 - RatioHalves) steps of 1 / (2 size)
oct_step_ratioOnly(semi) == 0 - RatioHalves(semi)
oct_step(semi) == 2 - RatioHalves(semi)

\* OctaverEffect.process_into(x_in, out) for a mono block and a mono out
oct_process_into(e, x_in) ==
    LET semi == step_towards(e.semitones, 1)   \* 0.5, in the whole semitones kept here
        mix  == step_towards(e.mix, 5)
        step == oct_step(semi.ret)
        k    == pitch_shift_kernel_cubic(e, x_in, step)
        dry_gain == FULL_SCALE - mix.ret
        wet_gain == mix.ret
    IN  [e |-> [e EXCEPT !.semitones = semi.p, !.mix = mix.p,
                         !.buf = k.buf, !.w = k.w, !.phasor = k.phasor],
         out |-> [i \in 1..Len(x_in) |->
                    (x_in[i] * dry_gain + k.y[i] * wet_gain) \div FULL_SCALE]]

\* the mono blocks handed to the octaver: silence, and every block of
\* samples at plus or minus full scale
OctZero == [i \in 1..OctFrames |-> 0]
OctBlocks == {OctZero} \cup [1..OctFrames -> {-FULL_SCALE, FULL_SCALE}]

\* EffectsChain.warmup as the octaver sees it: process_into on two blocks of
\* zeros of the chain's block size
oct_warmup(e, blocksize) ==
    oct_process_into(oct_process_into(e, [i \in 1..blocksize |-> 0]).e,
                     [i \in 1..blocksize |-> 0]).e

\* the effect after construction, prepare and the warmup of a chain whose
\* block size is at most OctFrames
OctaverInit ==
    \E semi \in Semitones, mix \in Mixes, blocksize \in 1..OctFrames :
        oc = [e |-> oct_warmup(OctaverPrepared(semi, mix, OctRate), blocksize),
              last |-> [op |-> "none"], blocks |-> 0]

\* one call of process_into
OctProcess ==
    /\ oc.blocks < MaxOctBlocks
    /\ \E x_in \in OctBlocks :
          LET r == oct_process_into(oc.e, x_in)
          IN  oc' = [e |-> r.e,
                     last |-> [op |-> "process", x_in |-> x_in, out |-> r.out],
                     blocks |-> oc.blocks + 1]
    /\ UNCHANGED NotOctaver

NextOctaver == OctProcess

\* C16: after the warmup, process_into on an all-zero block gives an output
\* whose samples all lie in [-1, 1], whatever signal was processed before.
C16_ZeroBlockInRange ==
    (oc.last.op = "process" /\ oc.last.x_in = OctZero) =>
        \A i \in 1..Len(oc.last.out) :
            /\ oc.last.out[i] >= -FULL_SCALE
            /\ oc.last.out[i] <= FULL_SCALE


(***************************************************************************)
(* SmoothParam.step_towards in floating point   (core.py 60-66)            *)
(*                                                                         *)
(* current, target and max_step are Python floats, and the difference and  *)
(* the sum in step_towards are rounded to the nearest float, ties to the   *)
(* even mantissa.  The floats of this model have a mantissa of MantBits    *)
(* bits (a double has 53) and are written as whole numbers: every whole    *)
(* number below 2^MantBits is a float, above that every second one, then   *)
(* every fourth, and so on.                                                *)
(***************************************************************************)

\* Bounds of the floating-point model
MantBits == 3        \* mantissa bits of a float
MaxFloat == 10       \* largest magnitude of current, target and max_step
MaxRampCalls == 3    \* step_towards calls

RECURSIVE Pow2(_)
Pow2(n) == IF n <= 0 THEN 1 ELSE 2 * Pow2(n - 1)

\* the number of binary digits of a positive whole number
RECURSIVE BitLen(_)
BitLen(n) == IF n <= 0 THEN 0 ELSE 1 + BitLen(n \div 2)

\* the float nearest to the real number v, ties to even
RoundF(v) ==
    LET a == Abs(v)
        u == Pow2(BitLen(a) - MantBits)
        q == a \div u
        r == a % u
        m == IF 2 * r < u THEN q
             ELSE IF 2 * r > u THEN q + 1
             ELSE IF q % 2 = 0 THEN q ELSE q + 1
    IN  IF v < 0 THEN -(m * u) ELSE m * u

Floats == {v \in (-MaxFloat)..MaxFloat : RoundF(v) = v}

\* the smallest steps s > 0 a caller commits to
RampSteps == {1, 2, 4}

\* SmoothParam.step_towards on floats: delta = self.target - self.current;
\* self.current += min(max(delta, -max_step), max_step)
step_towards_float(p, max_step) ==
    IF max_step < 0
    THEN [p |-> p, raised |-> TRUE, ret |-> 0]
    ELSE LET delta == RoundF(p.target - p.current)
             cur   == RoundF(p.current + Min(Max(delta, -max_step), max_step))
         IN  [p |-> [p EXCEPT !.current = cur], raised |-> FALSE, ret |-> cur]

\* a parameter with any current and target, and the smallest step s > 0 the
\* caller will use; start is the current value before the first call
RampInit ==
    \E value \in Floats, target \in Floats, s \in RampSteps :
        rp = [p |-> [SmoothParam(value, -MaxFloat, MaxFloat) EXCEPT !.target = target],
              start |-> value, s |-> s, calls |-> 0, pre |-> value,
              last |-> [op |-> "none", max_step |-> 0]]

\* one block: step_towards(max_step) with max_step >= s; the target is left
\* alone
RampStep ==
    /\ rp.calls < MaxRampCalls
    /\ \E max_step \in {v \in Floats : v >= rp.s} :
          rp' = [rp EXCEPT !.p = step_towards_float(rp.p, max_step).p,
                           !.calls = @ + 1,
                           !.pre = rp.p.current,
                           !.last = [op |-> "step_towards", max_step |-> max_step]]
    /\ UNCHANGED NotRamp

\* step_towards(0) between two blocks; it does not count as a step
RampHold ==
    /\ rp.last.op # "hold"
    /\ rp' = [rp EXCEPT !.p = step_towards_float(rp.p, 0).p,
                        !.pre = rp.p.current,
                        !.last = [op |-> "hold", max_step |-> 0]]
    /\ UNCHANGED NotRamp

NextRamp ==
    \/ RampStep
    \/ RampHold

\* ceil(a / s) for whole numbers a >= 0, s > 0
CeilDiv(a, s) == (a + s - 1) \div s

\* C20: with the target unchanged and step_towards called with max_step >= s
\* > 0, current is exactly equal to the target after at most
\* ceil(|target - current| / s) calls and stays equal afterwards;
\* step_towards(0) never changes current.
C20_ExactConvergence ==
    /\ rp.calls >= CeilDiv(Abs(rp.p.target - rp.start), rp.s) =>
          rp.p.current = rp.p.target
    /\ rp.last.op = "hold" => rp.p.current = rp.pre


(***************************************************************************)
(* NoiseGateEffect   (src/src/audioblocks/gate.py)                         *)
(*                                                                         *)
(* Samples and the linear threshold are hundredths of full scale; the gain *)
(* and the two smoothing coefficients are thousandths.  The gain after a   *)
(* sample is rounded down to a whole thousandth.  The parameters stay as   *)
(* constructed; 10 ** (dB / 20) and 1 - exp(-2.2 / (t fs)) are tabulated   *)
(* for the values they take.                                               *)
(***************************************************************************)

\* Bound of the gate model
MaxGateCalls == 3    \* prepare and process_into calls

\* the gain 1.0
GAIN_ONE == 1000

\* the arguments NoiseGateEffect is constructed with and the sample rates it
\* is prepared for
GateThresholds == {-40, -20}
GateAttacks == {1, 10}
GateReleases == {10, 100}
GateRates == {1000, 2000}

\* 10.0 ** (th_db / 20.0), in hundredths
ThreshLin(th_db) == IF th_db = -40 THEN 1 ELSE 10

\* NoiseGateEffect._calc_coeff(time_ms) = 1 - exp(-2.2 / (max(0.001,
\* time_ms / 1000) * fs)), in thousandths
calc_coeff(time_ms, fs) ==
    CASE fs = 1000 /\ time_ms = 1   -> 889
      [] fs = 1000 /\ time_ms = 10  -> 197
      [] fs = 1000 /\ time_ms = 100 -> 21
      [] fs = 2000 /\ time_ms = 1   -> 667
      [] fs = 2000 /\ time_ms = 10  -> 104
      [] fs = 2000 /\ time_ms = 100 -> 10

\* gate_kernel lines 21-25: the largest absolute value of a frame, found by
\* the loop over the channels from the c-th on
RECURSIVE input_level(_, _, _)
input_level(frame, c, input_lvl) ==
    IF c > Len(frame) THEN input_lvl
    ELSE input_level(frame, c + 1,
                     IF Abs(frame[c]) > input_lvl THEN Abs(frame[c]) ELSE input_lvl)

\* gate_kernel whose detector looks at the first channel only
gate_step_firstChannel(current_gain, frame, thresh_lin, attack_coeff, release_coeff) ==
    LET input_lvl == Abs(frame[1])
        target    == IF input_lvl > thresh_lin THEN GAIN_ONE ELSE 0
        gain      == IF current_gain < target
                     THEN ((GAIN_ONE - attack_coeff) * current_gain
                           + attack_coeff * target) \div GAIN_ONE
                     ELSE ((GAIN_ONE - release_coeff) * current_gain
                           + release_coeff * target) \div GAIN_ONE
    IN  [gain |-> gain, lvl |-> input_lvl, target |-> target,
         out |-> [c \in 1..Len(frame) |-> TruncDiv(frame[c] * gain, GAIN_ONE)]]

\* gate_kernel, one sample (lines 19-40)
gate_step(current_gain, frame, thresh_lin, attack_coeff, release_coeff) ==
    LET input_lvl == input_level(frame, 1, 0)
        target    == IF input_lvl > thresh_lin THEN GAIN_ONE ELSE 0
        gain      == IF current_gain < target
                     THEN ((GAIN_ONE - attack_coeff) * current_gain
                           + attack_coeff * target) \div GAIN_ONE
                     ELSE ((GAIN_ONE - release_coeff) * current_gain
                           + release_coeff * target) \div GAIN_ONE
    IN  [gain |-> gain, lvl |-> input_lvl, target |-> target,
         out |-> [c \in 1..Len(frame) |-> TruncDiv(frame[c] * gain, GAIN_ONE)]]

\* gate_kernel, the loop over the frames: k = [gain, out, trace]
RECURSIVE gate_run(_, _, _, _, _, _)
gate_run(k, x_in, i, thresh_lin, attack_coeff, release_coeff) ==
    IF i > Len(x_in) THEN k
    ELSE LET r == gate_step(k.gain, x_in[i], thresh_lin, attack_coeff, release_coeff)
         IN  gate_run([gain |-> r.gain, out |-> Append(k.out, r.out),
                       trace |-> Append(k.trace, [before |-> k.gain, lvl |-> r.lvl,
                                                  target |-> r.target, gain |-> r.gain])],
                      x_in, i + 1, thresh_lin, attack_coeff, release_coeff)

\* gate_kernel(x_in, x_out, gain_state, thresh_lin, attack_coeff, release_coeff)
gate_kernel(x_in, gain_state, thresh_lin, attack_coeff, release_coeff) ==
    gate_run([gain |-> gain_state, out |-> <<>>, trace |-> <<>>], x_in, 1,
             thresh_lin, attack_coeff, release_coeff)

\* NoiseGateEffect(threshold_db, attack_ms, release_ms), then prepare
NoiseGateEffect(threshold_db, attack_ms, release_ms, sample_rate) ==
    [threshold_db |-> SmoothParam(threshold_db, -80, 0),
     attack_ms    |-> SmoothParam(attack_ms, 1, 500),
     release_ms   |-> SmoothParam(release_ms, 10, 1000),
     gain_state   |-> 0,
     fs           |-> sample_rate]

\* NoiseGateEffect.process_into(x_in, out)
gate_process_into(e, x_in) ==
    LET th  == step_towards(e.threshold_db, 1)
        att == step_towards(e.attack_ms, 5)
        rel == step_towards(e.release_ms, 10)
        k   == gate_kernel(x_in, e.gain_state, ThreshLin(th.ret),
                           calc_coeff(att.ret, e.fs), calc_coeff(rel.ret, e.fs))
    IN  [e |-> [e EXCEPT !.threshold_db = th.p, !.attack_ms = att.p,
                         !.release_ms = rel.p, !.gain_state = k.gain],
         out |-> k.out, trace |-> k.trace,
         thresh_lin |-> ThreshLin(th.ret),
         attack_coeff |-> calc_coeff(att.ret, e.fs),
         release_coeff |-> calc_coeff(rel.ret, e.fs)]

\* the blocks handed to the gate, mono and stereo: silence, full scale, a
\* sample exactly at the -40 dB threshold, one just above it, a loud sample
\* on the second channel only
GateBlocks ==
    { << <<0>>, <<0>> >>,
      << <<100>>, <<1>> >>,
      << <<-100>>, <<-100>>, <<2>> >>,
      << <<0, -100>>, <<0, 0>> >>,
      << <<2, 1>>, <<1, 0>> >>,
      << <<100, 100>> >>,
      << <<1, -1>>, <<-10, 11>> >> }

GateInit ==
    \E th \in GateThresholds, a \in GateAttacks, r \in GateReleases, fs \in GateRates :
        gt = [e |-> NoiseGateEffect(th, a, r, fs), last |-> [op |-> "none"], calls |-> 0]

\* prepare(sample_rate, ...): stores the sample rate, the gain is kept
GatePrepare ==
    /\ gt.calls < MaxGateCalls
    /\ \E fs \in GateRates :
          gt' = [gt EXCEPT !.e.fs = fs, !.last = [op |-> "prepare"], !.calls = @ + 1]
    /\ UNCHANGED NotGate

\* one call of process_into
GateProcess ==
    /\ gt.calls < MaxGateCalls
    /\ \E x_in \in GateBlocks :
          LET r == gate_process_into(gt.e, x_in)
          IN  gt' = [e |-> r.e,
                     last |-> [op |-> "process", x_in |-> x_in, out |-> r.out,
                               trace |-> r.trace, gain_before |-> gt.e.gain_state,
                               thresh_lin |-> r.thresh_lin,
                               attack_coeff |-> r.attack_coeff,
                               release_coeff |-> r.release_coeff],
                     calls |-> gt.calls + 1]
    /\ UNCHANGED NotGate

NextGate ==
    \/ GatePrepare
    \/ GateProcess

\* the largest element of a non-empty set of numbers
MaxOf(S) == CHOOSE m \in S : \A v \in S : v <= m

\* C21: for every sample of a block the detection level is the largest
\* absolute value over all channels, the target gain is 1 when the level is
\* strictly above the threshold and 0 otherwise, the gain moves toward the
\* target with the attack coefficient when it is below the target and with
\* the release coefficient otherwise, that gain multiplies every channel of
\* the sample, and the gain carried to the next block is in [0, 1].
C21_GateLaw ==
    /\ gt.e.gain_state >= 0
    /\ gt.e.gain_state <= GAIN_ONE
    /\ (gt.last.op = "process") =>
          LET u == gt.last
          IN  /\ Len(u.trace) = Len(u.x_in)
              /\ Len(u.out) = Len(u.x_in)
              /\ gt.e.gain_state = u.trace[Len(u.trace)].gain
              /\ \A i \in 1..Len(u.x_in) :
                    LET t    == u.trace[i]
                        prev == IF i = 1 THEN u.gain_before ELSE u.trace[i - 1].gain
                        lvl  == MaxOf({Abs(u.x_in[i][c]) : c \in 1..Len(u.x_in[i])})
                        tgt  == IF lvl > u.thresh_lin THEN GAIN_ONE ELSE 0
                        coef == IF prev < tgt THEN u.attack_coeff ELSE u.release_coeff
                    IN  /\ t.lvl = lvl
                        /\ t.target = tgt
                        /\ t.before = prev
                        /\ t.gain = ((GAIN_ONE - coef) * prev + coef * tgt) \div GAIN_ONE
                        /\ Abs(tgt - t.gain) <= Abs(tgt - prev)
                        /\ t.gain >= 0 /\ t.gain <= GAIN_ONE
                        /\ \A c \in 1..Len(u.x_in[i]) :
                              u.out[i][c] = TruncDiv(u.x_in[i][c] * t.gain, GAIN_ONE)

\* C21 witness: a stereo block whose second channel alone is above the
\* threshold has opened the gate for both channels, starting from a gain
\* strictly between 0 and 1
C21_Witness ==
    /\ gt.last.op = "process"
    /\ Len(gt.last.x_in[1]) = 2
    /\ gt.last.gain_before > 0
    /\ gt.last.gain_before < GAIN_ONE
    /\ Abs(gt.last.x_in[1][1]) <= gt.last.thresh_lin
    /\ Abs(gt.last.x_in[1][2]) > gt.last.thresh_lin
    /\ gt.last.trace[1].gain > gt.last.gain_before
    /\ gt.last.out[1][2] # 0

(***************************************************************************)
(* OctaverEffect: the phasor, the write pointer and the indices read       *)
(* (src/be/audioblocks/octaver.py)                                         *)
(*                                                                         *)
(* The effect is constructed with any semitones the constructor takes,     *)
(* prepared, and then prepared again and run in any order.  Each call of   *)
(* process_into leaves a trace with, for every sample, the write pointer,  *)
(* both phasors, both read positions and the eight indices read.           *)
(***************************************************************************)

\* Bounds of the phasor model
MaxPhaseCalls == 3   \* prepare and process_into calls

\* the semitones the effect is constructed with: an octave down, none, one
\* and two octaves up, and five octaves up, which SmoothParam.__init__ keeps
\* although it lies above the maximum of 24
PhaseSemitones == {-12, 0, 12, 24, 60}

\* sample rates whose windows are 16 and 32 samples
PhaseRates == {400, 800}

\* mono blocks of one, two and three frames
PhaseBlocks == {<<0>>, <<FULL_SCALE, -FULL_SCALE>>, <<FULL_SCALE, 0, -FULL_SCALE>>}

\* OctaverEffect.prepare(sample_rate, _, _, _)
oct_prepare(e, sample_rate) ==
    LET req_size == Max(TruncDiv(sample_rate * WINDOW_MS, 1000), MIN_OCT_SIZE)
    IN  IF req_size # e.size
        THEN [e EXCEPT !.size = req_size, !.buf = [i \in 1..req_size |-> 0],
                       !.w = 0, !.phasor = 0]
        ELSE e

\* what pitch_shift_kernel_cubic reads and leaves, sample by sample
RECURSIVE kernel_trace(_, _, _, _, _)
kernel_trace(st, size, x_in, step, i) ==
    IF i > Len(x_in) THEN <<>>
    ELSE LET p1 == st.phasor
             p2 == Phasor2(p1, size)
             nx == pitch_shift_step(st, size, x_in[i], step)
         IN  <<[w |-> st.w, p1 |-> p1, p2 |-> p2,
                pos1 |-> TapPos(st.w, size, p1), pos2 |-> TapPos(st.w, size, p2),
                idx |-> TapIndices(st.w, size, p1) \cup TapIndices(st.w, size, p2),
                w_next |-> nx.w, phasor_next |-> nx.phasor]>>
             \o kernel_trace(nx, size, x_in, step, i + 1)

\* the effect after construction and its first prepare
PhaseInit ==
    \E semi \in PhaseSemitones, rate \in PhaseRates :
        oc = [e |-> OctaverPrepared(semi, FULL_SCALE, rate),
              last |-> [op |-> "none"], blocks |-> 0]

\* prepare with either sample rate
PhasePrepare ==
    /\ oc.blocks < MaxPhaseCalls
    /\ \E rate \in PhaseRates :
          oc' = [e |-> oct_prepare(oc.e, rate),
                 last |-> [op |-> "prepare", size |-> oc.e.size, w |-> oc.e.w],
                 blocks |-> oc.blocks + 1]
    /\ UNCHANGED NotOctaver

\* process_into on one block
PhaseProcess ==
    /\ oc.blocks < MaxPhaseCalls
    /\ \E x_in \in PhaseBlocks :
          LET semi == step_towards(oc.e.semitones, 1).ret
              step == oct_step(semi)
              st0  == [buf |-> oc.e.buf, w |-> oc.e.w, phasor |-> oc.e.phasor,
                       y |-> <<>>]
          IN  oc' = [e |-> oct_process_into(oc.e, x_in).e,
                     last |-> [op |-> "process", semi |-> semi, step |-> step,
                               phasor |-> oc.e.phasor,
                               trace |-> kernel_trace(st0, oc.e.size, x_in, step, 1)],
                     blocks |-> oc.blocks + 1]
    /\ UNCHANGED NotOctaver

NextPhase == PhasePrepare \/ PhaseProcess

\* C22: after any sequence of prepare and process_into calls the phasor is
\* in [0, 1), the write pointer is in [0, size), and the eight buffer
\* indices the two taps read are in [0, size), for every pitch setting the
\* effect can be given.
C22_PointersInRange ==
    /\ oc.e.phasor \in 0..(2 * oc.e.size - 1)
    /\ oc.e.w \in 0..(oc.e.size - 1)
    /\ oc.last.op = "process" =>
          \A k \in 1..Len(oc.last.trace) :
              /\ oc.last.trace[k].idx \subseteq 0..(oc.e.size - 1)
              /\ oc.last.trace[k].w_next \in 0..(oc.e.size - 1)
              /\ oc.last.trace[k].phasor_next \in 0..(2 * oc.e.size - 1)

\* the effect with its semitones at 0 from the start, or back at 0 after a
\* ramp from another pitch: blocks processed at the other pitches have left
\* the phasor anywhere in its range and the write pointer at the start of
\* the buffer or two samples before its end
HoldInit ==
    \E rate \in PhaseRates :
        LET e0 == OctaverPrepared(0, FULL_SCALE, rate)
        IN  \E p \in 0..(2 * e0.size - 1), w \in {0, e0.size - 2} :
                oc = [e |-> [e0 EXCEPT !.phasor = p, !.w = w],
                      last |-> [op |-> "none"], blocks |-> 0]

\* C23: with the semitones held at 0 the phasor step is 0, the phasor is the
\* same after every block as before it, and on every sample the two taps
\* read phasor * size and ((phasor + 0.5) mod 1) * size samples behind the
\* write head.
C23_ZeroPitchHolds ==
    (oc.last.op = "process" /\ oc.last.semi = 0) =>
        /\ oc.last.step = 0
        /\ oc.e.phasor = oc.last.phasor
        /\ \A k \in 1..Len(oc.last.trace) :
              LET t == oc.last.trace[k]
              IN  /\ t.p1 = oc.last.phasor
                  /\ t.p2 = (oc.last.phasor + oc.e.size) % (2 * oc.e.size)
                  /\ t.phasor_next = oc.last.phasor
                  /\ 2 * (t.w + oc.e.size) - t.pos1 = oc.last.phasor
                  /\ 2 * (t.w + oc.e.size) - t.pos2
                        = (oc.last.phasor + oc.e.size) % (2 * oc.e.size)

\* a block of three frames processed at 0 semitones with the phasor in the
\* second half of the window and the write pointer wrapping inside the block
C23_Witness ==
    /\ oc.last.op = "process" /\ oc.last.semi = 0
    /\ oc.last.phasor > oc.e.size
    /\ Len(oc.last.trace) = 3
    /\ oc.last.trace[3].w < oc.last.trace[1].w

(***************************************************************************)
(* SpectralFilter   (src/src/audioblocks/spectral.py)                      *)
(*                                                                         *)
(* An overlap-add filter: a ring of n_fft = 2 hop input samples, an        *)
(* accumulator of the same length and a smoothed mask with one gain for    *)
(* each of the n_fft / 2 + 1 bins.  Samples, the reduction and the mask    *)
(* are hundredths.  process_into is modelled for the hops whose transform  *)
(* has whole coefficients, 1 and 2; the windowed frame is kept in units of *)
(* 1 / 400.                                                                *)
(***************************************************************************)

\* Bounds of the spectral model
MaxSpectralCalls == 4    \* prepare and process_into calls

\* SpectralFilter.__init__: blocksize, n_fft, the default smoothing (0.8)
INIT_BLOCKSIZE == 256
INIT_NFFT == 512
SMOOTHING == 80

\* the block sizes prepare is called with
SpectralSizes == {1, 2, INIT_HOP}

\* the mono blocks of hop frames handed to process_into
SpectralBlocks(hop) == [1..hop -> {-FULL_SCALE, 0, FULL_SCALE}]

zeros(n) == [i \in 1..n |-> 0]
ones(n) == [i \in 1..n |-> FULL_SCALE]

\* SpectralFilter()
SpectralFilter ==
    [threshold_db |-> SmoothParam(-40, -80, 0),
     reduction |-> SmoothParam(50, 0, FULL_SCALE),
     blocksize |-> INIT_BLOCKSIZE, n_fft |-> INIT_NFFT, hop |-> INIT_HOP,
     in_buffer |-> zeros(INIT_NFFT), out_accum |-> zeros(INIT_NFFT),
     mask_smooth |-> ones(INIT_NFFT \div 2 + 1)]

\* SpectralFilter.prepare(_, _, _, blocksize)
sf_prepare_keepMask(e, blocksize) ==
    IF blocksize # e.hop
    THEN [e EXCEPT !.blocksize = blocksize, !.hop = blocksize,
                   !.n_fft = blocksize * 2,
                   !.in_buffer = zeros(blocksize * 2),
                   !.out_accum = zeros(blocksize * 2)]
    ELSE e
sf_prepare(e, blocksize) ==
    IF blocksize # e.hop
    THEN [e EXCEPT !.blocksize = blocksize, !.hop = blocksize,
                   !.n_fft = blocksize * 2,
                   !.in_buffer = zeros(blocksize * 2),
                   !.out_accum = zeros(blocksize * 2),
                   !.mask_smooth = ones((blocksize * 2) \div 2 + 1)]
    ELSE e

\* in_buffer * window, times 400: np.hanning(2) is (0, 0) and np.hanning(4)
\* is (0, 0.75, 0.75, 0)
sf_windowed(in_buffer) ==
    IF Len(in_buffer) = 4 THEN <<0, 3 * in_buffer[2], 3 * in_buffer[3], 0>>
    ELSE zeros(Len(in_buffer))

\* np.fft.rfft of a frame of 2 or 4 samples: the bins as [re, im]
sf_rfft(v) ==
    IF Len(v) = 4
    THEN << [re |-> v[1] + v[2] + v[3] + v[4], im |-> 0],
            [re |-> v[1] - v[3], im |-> v[4] - v[2]],
            [re |-> v[1] - v[2] + v[3] - v[4], im |-> 0] >>
    ELSE << [re |-> v[1] + v[2], im |-> 0], [re |-> v[1] - v[2], im |-> 0] >>

\* np.fft.irfft of 2 or 3 bins, times the length of the frame
sf_irfft(Y) ==
    IF Len(Y) = 3
    THEN << Y[1].re + 2 * Y[2].re + Y[3].re, Y[1].re - 2 * Y[2].im - Y[3].re,
            Y[1].re - 2 * Y[2].re + Y[3].re, Y[1].re + 2 * Y[2].im - Y[3].re >>
    ELSE << Y[1].re + Y[2].re, Y[1].re - Y[2].re >>

\* threshold_linear = 10 ** (th_db / 20) for the default -40 dB, squared, in
\* the units of the squared magnitude of a bin: (0.01 * 400) ^ 2
sf_threshold_sq(th_db) == 16

\* SpectralFilter.process_into(x_in, out) for a mono block of hop frames
sf_process_into(e, x_in) ==
    LET th   == step_towards(e.threshold_db, 1)
        red  == step_towards(e.reduction, 5)
        n    == e.n_fft
        ring == [i \in 1..n |-> IF i <= n - e.hop THEN e.in_buffer[i + e.hop]
                                ELSE x_in[i - (n - e.hop)]]
        X    == sf_rfft(sf_windowed(ring))
        cur  == [k \in 1..Len(X) |->
                    IF X[k].re * X[k].re + X[k].im * X[k].im > sf_threshold_sq(th.ret)
                    THEN FULL_SCALE ELSE red.ret]
        mask == [k \in 1..Len(X) |->
                    (SMOOTHING * e.mask_smooth[k] + (FULL_SCALE - SMOOTHING) * cur[k])
                        \div FULL_SCALE]
        Y    == [k \in 1..Len(X) |-> [re |-> X[k].re * mask[k], im |-> X[k].im * mask[k]]]
        t    == sf_irfft(Y)
        acc  == [i \in 1..n |-> e.out_accum[i] + TruncDiv(t[i], 4 * FULL_SCALE * n)]
    IN  [e |-> [e EXCEPT !.threshold_db = th.p, !.reduction = red.p,
                         !.in_buffer = ring, !.mask_smooth = mask,
                         !.out_accum = [i \in 1..n |-> IF i <= n - e.hop
                                                       THEN acc[i + e.hop] ELSE 0]],
         out |-> [i \in 1..e.hop |-> acc[i]]]

SpectralInit ==
    sf = [e |-> SpectralFilter, last |-> [op |-> "none"], calls |-> 0]

\* prepare with any of the block sizes
SpectralPrepare ==
    /\ sf.calls < MaxSpectralCalls
    /\ \E b \in SpectralSizes :
          sf' = [e |-> sf_prepare(sf.e, b),
                 last |-> [op |-> "prepare", b |-> b, pre |-> sf.e],
                 calls |-> sf.calls + 1]
    /\ UNCHANGED NotSpectral

\* process_into on a block of hop frames, for the hops modelled
SpectralProcess ==
    /\ sf.calls < MaxSpectralCalls
    /\ sf.e.hop \in {1, 2}
    /\ \E x_in \in SpectralBlocks(sf.e.hop) :
          LET r == sf_process_into(sf.e, x_in)
          IN  sf' = [e |-> r.e,
                     last |-> [op |-> "process", x_in |-> x_in, out |-> r.out],
                     calls |-> sf.calls + 1]
    /\ UNCHANGED NotSpectral

NextSpectral == SpectralPrepare \/ SpectralProcess

\* C24: after every prepare with block size b, hop = b, n_fft = 2b, the
\* input ring and the output accumulator have length 2b and the mask has
\* length b + 1; a prepare whose block size differs from the current hop
\* resets ring and accumulator to zeros and the mask to ones, and a prepare
\* with the same block size leaves all three unchanged.
C24_PrepareSizes ==
    sf.last.op = "prepare" =>
        LET b == sf.last.b
            pre == sf.last.pre
            e == sf.e
        IN  /\ e.hop = b /\ e.n_fft = 2 * b
            /\ Len(e.in_buffer) = 2 * b /\ Len(e.out_accum) = 2 * b
            /\ Len(e.mask_smooth) = b + 1
            /\ b # pre.hop => /\ e.in_buffer = zeros(2 * b)
                              /\ e.out_accum = zeros(2 * b)
                              /\ e.mask_smooth = ones(b + 1)
            /\ b = pre.hop => /\ e.in_buffer = pre.in_buffer
                              /\ e.out_accum = pre.out_accum
                              /\ e.mask_smooth = pre.mask_smooth

\* a prepare with another block size on a filter whose ring and accumulator
\* hold signal and whose mask has moved away from ones
C24_Witness ==
    /\ sf.last.op = "prepare"
    /\ sf.last.b # sf.last.pre.hop
    /\ sf.last.pre.in_buffer # zeros(sf.last.pre.n_fft)
    /\ sf.last.pre.out_accum # zeros(sf.last.pre.n_fft)
    /\ sf.last.pre.mask_smooth # ones(sf.last.pre.hop + 1)

(***************************************************************************)
(* A session of the front end with the engine                              *)
(* (src/fe/frontend.py, src/be/backend.py 93-111, engine.py)               *)
(*                                                                         *)
(* The front end keeps the chain in its store, as records with the keys    *)
(* effect_id, type and params, and sends the whole store with build_chain  *)
(* and one value with update_param; the backend handles one command after  *)
(* the other.  A second client sends the same commands with records that   *)
(* carry their identifier under the key id.  ctl holds the client's store. *)
(***************************************************************************)

\* Bounds of the session model
MaxSessionOps == 4   \* commands of a session

\* engine.py 77: file_blocksize
FILE_BLOCKSIZE == 1024

\* the key a client files the identifier of a record under
SessionKeys == {"effect_id", "id"}

\* the effect types an effect is added with
SessionTypes == {"delay", "reverb"}

\* frontend.py, EFFECT_DEFAULTS
EFFECT_DEFAULTS(type) ==
    CASE type = "delay" ->
            [feedback |-> 50, delay_ms |-> 300, mix_dry |-> 70, mix_wet |-> 50,
             offset_ms |-> 30]
      [] type = "reverb" ->
            [rt60_s |-> 150, mix_wet |-> 40, mix_dry |-> 80, damp |-> 30,
             pre_delay_ms |-> 0]

\* the sliders moved in a session, and the value they are moved to
SessionParams(type) ==
    IF type = "delay" THEN {"feedback", "delay_ms"} ELSE {"damp"}

\* str(uuid.uuid4()): the identifier of the n-th effect added
NewId(n) == IF n = 1 THEN "a" ELSE IF n = 2 THEN "b" ELSE "c"

\* build_chain, lines 39-51: the loop over the configuration from record k
RECURSIVE bc_records(_, _, _, _)
bc_records(e, c, effects_config, k) ==
    IF k > Len(effects_config) THEN e
    ELSE bc_records(bc_record(e, c, effects_config[k]), c, effects_config, k + 1)

\* AudioEngine.build_chain(effects_config), from the first line to the last
build_chain(e, effects_config) ==
    LET c  == Len(e.heap) + 1
        e1 == bc_add_tap(bc_begin(e, effects_config), c)
        e2 == bc_add_tap(bc_records(e1, c, effects_config, 1), c)
    IN  bc_publish(bc_warmup(e2, c), c)

\* process_wav_file, lines 78-86: the effects of the offline chain
RECURSIVE wav_add(_, _, _)
wav_add(ch, config_list, k) ==
    IF k > Len(config_list) THEN ch
    ELSE LET effect_type == dict_get(config_list[k], "type", "")
             params      == dict_get(config_list[k], "params", <<>>)
         IN  IF effect_type \in {"delay", "reverb"}
             THEN wav_add(add(ch, EngineEffectWith(effect_type, Len(ch.effects) + 1,
                                                   params)),
                          config_list, k + 1)
             ELSE wav_add(ch, config_list, k + 1)

\* process_wav_file, lines 76-90: the offline chain, built from
\* last_chain_config, warmed up and run once over the file
wav_chain(e, fs) ==
    chain_process(warmup(wav_add([EngineChain EXCEPT !.sr = fs, !.ci = 1, !.co = 2,
                                                     !.bs = FILE_BLOCKSIZE],
                                 e.last_chain_config, 1)))

\* a client connects: an engine without a chain, an empty store
SessionInit ==
    /\ eng = AudioEngine
    /\ \E key \in SessionKeys :
          ctl = [pc |-> "idle", key |-> key, store |-> <<>>, added |-> 0, ops |-> 0,
                 sent |-> {}, last |-> [op |-> "none"]]
    /\ aud = [pc |-> "idle", calls |-> 0, last |-> [chain |-> 0]]

\* add_effect (frontend.py 379-396) and the build_chain command it sends
SessionAdd ==
    /\ ctl.ops < MaxSessionOps
    /\ Len(ctl.store) < 2
    /\ \E type \in SessionTypes :
          LET new_effect == (ctl.key :> NewId(ctl.added + 1))
                            @@ [type |-> type, params |-> EFFECT_DEFAULTS(type)]
              new_chain  == Append(ctl.store, new_effect)
          IN  /\ eng' = build_chain(eng, new_chain)
              /\ ctl' = [ctl EXCEPT !.store = new_chain, !.added = @ + 1,
                                    !.ops = @ + 1, !.sent = {},
                                    !.last = [op |-> "build_chain", cfg |-> new_chain]]
    /\ UNCHANGED aud
    /\ UNCHANGED NotEngine

\* update_parameter (frontend.py 482-507) and the update_param command it
\* sends; sent holds the values sent since the last build_chain
SessionUpdate ==
    /\ ctl.ops < MaxSessionOps
    /\ \E k \in 1..Len(ctl.store) :
          \E param_name \in SessionParams(ctl.store[k].type) :
              LET effect_id == ctl.store[k][ctl.key]
                  post == update_param(eng, effect_id, param_name, ParamValue)
              IN  /\ eng' = post
                  /\ ctl' = [ctl EXCEPT
                               !.store[k].params[param_name] = ParamValue,
                               !.ops = @ + 1,
                               !.sent = {t \in @ : t.k # k \/ t.name # param_name}
                                        \cup {[k |-> k, name |-> param_name,
                                               value |-> ParamValue]},
                               !.last = [op |-> "update_param", id |-> effect_id,
                                         k |-> k, name |-> param_name,
                                         value |-> ParamValue, pre |-> eng,
                                         post |-> post]]
    /\ UNCHANGED aud
    /\ UNCHANGED NotEngine

\* the process_file command (backend.py 110-111): process_wav_file builds
\* and runs its offline chain
SessionProcessFile ==
    /\ ctl.ops < MaxSessionOps
    /\ ctl' = [ctl EXCEPT !.ops = @ + 1,
                          !.last = [op |-> "process_wav_file",
                                    chain |-> wav_chain(eng, SAMPLE_RATE)]]
    /\ UNCHANGED <<eng, aud>>
    /\ UNCHANGED NotEngine

NextSession == SessionAdd \/ SessionUpdate \/ SessionProcessFile

\* the value of an attribute: the target of a SmoothParam, else the attribute
AttrValue(f, name) ==
    IF name \in SmoothAttrs(f.kind) THEN f.attrs[name].target ELSE f.attrs[name]

\* the effects of the published chain between its taps
LiveEffects ==
    IF eng.effects_chain = 0 THEN <<>> ELSE Inner(eng.heap[eng.effects_chain])

\* C25: after a build_chain built by the front end (records carrying the
\* key effect_id), an update_param the front end sends for one of those
\* effects finds the effect in effects_map and changes its parameter; and
\* every effect in effects_map belongs to the published chain.
C25_FrontendUpdateFindsEffect ==
    /\ (ctl.last.op = "update_param" /\ ctl.key = "effect_id") =>
          /\ ctl.last.id \in DOMAIN ctl.last.pre.effects_map
          /\ AttrValue(LiveEffects[ctl.last.k], ctl.last.name) = ctl.last.value
    /\ \A id \in DOMAIN eng.effects_map :
          eng.effects_map[id].chain = eng.effects_chain

\* C27: process_wav_file builds its offline chain with the parameter values
\* in effect for the live chain; a value sent with update_param after the
\* last build_chain is the value the file is processed with.
C27_FileUsesLiveValues ==
    ctl.last.op = "process_wav_file" =>
        LET offline == ctl.last.chain.effects
        IN  /\ Len(offline) = Len(LiveEffects)
            /\ \A k \in 1..Len(offline) :
                  /\ offline[k].kind = LiveEffects[k].kind
                  /\ \A n \in DOMAIN offline[k].attrs :
                        AttrValue(offline[k], n) = AttrValue(LiveEffects[k], n)
            /\ \A t \in ctl.sent :
                  AttrValue(offline[t.k], t.name) = t.value

(***************************************************************************)
(* data_sender and the audio thread   (src/be/backend.py 35-70)            *)
(*                                                                         *)
(* The stream callback runs on the audio thread: the tap at the head of    *)
(* the chain puts the input block into the input queue, the effects run,   *)
(* and the tap at the tail puts the output block into the output queue.    *)
(* data_sender runs on the event loop and drains both queues with          *)
(* get_nowait.  Block k of the input is the number k, the chain's output   *)
(* for it is the number k in the output queue.                             *)
(***************************************************************************)

\* Bounds of the sender model
MaxSenderBlocks == 3     \* blocks the callback processes
MaxDrains == 3           \* passes of data_sender's outer loop

\* PlotDataTap.process_into: the tap puts a copy of the block into its queue
tap_put(q, block) == Append(q, block)

\* the client is connected, a chain is published and the stream runs; the
\* sender is at the start of a pass (backend.py 40-41)
SenderInit ==
    ds = [inq |-> <<>>, outq |-> <<>>,
          apc |-> "idle", k |-> 1,
          spc |-> "get_in", in_frames |-> <<>>, out_frames |-> <<>>, drains |-> 1]

\* the callback reaches the input tap with block k
AudioTapIn ==
    /\ ds.apc = "idle"
    /\ ds.k <= MaxSenderBlocks
    /\ ds' = [ds EXCEPT !.inq = tap_put(@, ds.k), !.apc = "effects"]
    /\ UNCHANGED NotSender

\* the effects have run; the callback reaches the output tap and returns
AudioTapOut ==
    /\ ds.apc = "effects"
    /\ ds' = [ds EXCEPT !.outq = tap_put(@, ds.k), !.apc = "idle", !.k = @ + 1]
    /\ UNCHANGED NotSender

\* line 46: in_frames.append(data_queues['input'].get_nowait()); queue.Empty
\* leaves the inner loop (48-49)
SenderGetIn ==
    /\ ds.spc = "get_in"
    /\ ds' = IF ds.inq = <<>>
             THEN [ds EXCEPT !.spc = "check"]
             ELSE [ds EXCEPT !.in_frames = Append(@, Head(ds.inq)),
                             !.inq = Tail(@), !.spc = "get_out"]
    /\ UNCHANGED NotSender

\* line 47: out_frames.append(data_queues['output'].get_nowait()); queue.Empty
\* leaves the inner loop (48-49)
SenderGetOut ==
    /\ ds.spc = "get_out"
    /\ ds' = IF ds.outq = <<>>
             THEN [ds EXCEPT !.spc = "check"]
             ELSE [ds EXCEPT !.out_frames = Append(@, Head(ds.outq)),
                             !.outq = Tail(@), !.spc = "get_in"]
    /\ UNCHANGED NotSender

\* line 51 with no frames, line 65, and the next pass (40-41)
SenderSleep ==
    /\ ds.spc = "check"
    /\ Len(ds.in_frames) = 0
    /\ ds.drains < MaxDrains
    /\ ds' = [ds EXCEPT !.spc = "get_in", !.in_frames = <<>>, !.out_frames = <<>>,
                        !.drains = @ + 1]
    /\ UNCHANGED NotSender

\* line 51 with frames: the payload is to be built from in_frames and
\* out_frames (55-61)
SenderBuild ==
    /\ ds.spc = "check"
    /\ Len(ds.in_frames) > 0
    /\ ds' = [ds EXCEPT !.spc = "payload"]
    /\ UNCHANGED NotSender

\* line 60: the arguments of run_in_executor are evaluated, and AudioEngine
\* has no attribute current_sample_rate; the AttributeError is caught by
\* neither except clause (67-70) and ends data_sender
SenderRaise ==
    /\ ds.spc = "payload"
    /\ ds' = [ds EXCEPT !.spc = "raised"]
    /\ UNCHANGED NotSender

NextSender ==
    \/ AudioTapIn
    \/ AudioTapOut
    \/ SenderGetIn
    \/ SenderGetOut
    \/ SenderSleep
    \/ SenderBuild
    \/ SenderRaise

MaxWavRequests == 4      \* process_file commands

\* process_wav_file that tests the flag inside the try block, so that the
\* finally clause also runs for the request it ignores
wav_begin_guardInTry(flag, readable) ==
    IF flag THEN [flag |-> FALSE, pc |-> "ignored"]
    ELSE IF readable THEN [flag |-> TRUE, pc |-> "sending"]
    ELSE [flag |-> FALSE, pc |-> "failed"]

\* process_wav_file, lines 59-111, up to the await: a set flag returns at
\* line 61; else the flag is set, and contents that cannot be decoded or
\* read raise into lines 113-116
wav_begin(flag, readable) ==
    IF flag THEN [flag |-> flag, pc |-> "ignored"]
    ELSE IF readable THEN [flag |-> TRUE, pc |-> "sending"]
    ELSE [flag |-> FALSE, pc |-> "failed"]

\* process_wav_file, lines 111-116, from the await: the send returns or
\* raises, and the finally clause clears the flag
wav_end(delivered) ==
    [flag |-> FALSE, pc |-> IF delivered THEN "done" ELSE "failed",
     sent |-> delivered]

\* AudioEngine.__init__: no run in progress, no request yet
WavInit ==
    wf = [is_processing_file |-> FALSE, tasks |-> <<>>]

\* backend.py 110-111: a process_file command arrives and its task is created
WavRequest ==
    /\ Len(wf.tasks) < MaxWavRequests
    /\ wf' = [wf EXCEPT !.tasks = Append(@, [pc |-> "created",
                                              arrived |-> wf.is_processing_file,
                                              found |-> FALSE, sent |-> FALSE])]
    /\ UNCHANGED NotWav

\* the loop runs the oldest task not yet started up to its await or its end
WavBegin ==
    /\ \E t \in 1..Len(wf.tasks) :
          /\ wf.tasks[t].pc = "created"
          /\ \A u \in 1..(t - 1) : wf.tasks[u].pc # "created"
          /\ \E readable \in BOOLEAN :
                LET r == wav_begin(wf.is_processing_file, readable)
                IN  wf' = [wf EXCEPT !.is_processing_file = r.flag,
                                     !.tasks[t].pc = r.pc,
                                     !.tasks[t].found = wf.is_processing_file]
    /\ UNCHANGED NotWav

\* the send of a task ends, with the response delivered or with an exception
WavEnd ==
    /\ \E t \in 1..Len(wf.tasks) :
          /\ wf.tasks[t].pc = "sending"
          /\ \E delivered \in BOOLEAN :
                LET r == wav_end(delivered)
                IN  wf' = [wf EXCEPT !.is_processing_file = r.flag,
                                     !.tasks[t].pc = r.pc,
                                     !.tasks[t].sent = r.sent]
    /\ UNCHANGED NotWav

NextWav == WavRequest \/ WavBegin \/ WavEnd

\* the runs in progress: the tasks between setting and clearing the flag
Running == {t \in 1..Len(wf.tasks) : wf.tasks[t].pc = "sending"}

\* C28: at most one process_wav_file run is in progress at any time; a
\* request that arrives while is_processing_file is true is ignored and sends
\* no response; is_processing_file is false again after every run, also one
\* that fails with an exception, so that a later request is accepted.
C28_OneRunAtATime ==
    /\ Cardinality(Running) <= 1
    /\ wf.is_processing_file = (Running # {})
    /\ \A t \in 1..Len(wf.tasks) :
          /\ (wf.tasks[t].pc # "created" /\ wf.tasks[t].arrived) =>
                (wf.tasks[t].pc = "ignored" /\ ~wf.tasks[t].sent)
          /\ (wf.tasks[t].pc # "created" /\ ~wf.tasks[t].found) =>
                wf.tasks[t].pc \in {"sending", "done", "failed"}
          /\ wf.tasks[t].sent => wf.tasks[t].pc = "done"

\* C28, amended: at most one run is in progress at any time; a request
\* whose process_wav_file call begins while is_processing_file is true is
\* ignored and sends no response, whatever the flag was when the command
\* arrived; is_processing_file is false whenever no run is in progress, also
\* after a run that failed, and a call that begins then is accepted.
C28_Amended ==
    /\ Cardinality(Running) <= 1
    /\ wf.is_processing_file = (Running # {})
    /\ \A t \in 1..Len(wf.tasks) :
          /\ (wf.tasks[t].pc # "created" /\ wf.tasks[t].found) =>
                (wf.tasks[t].pc = "ignored" /\ ~wf.tasks[t].sent)
          /\ (wf.tasks[t].pc # "created" /\ ~wf.tasks[t].found) =>
                wf.tasks[t].pc \in {"sending", "done", "failed"}
          /\ wf.tasks[t].sent => wf.tasks[t].pc = "done"

\* a run has failed, a request was ignored while a run was in progress, and
\* a request after them has been accepted and is running
C28_Witness ==
    \E f, i, t \in 1..Len(wf.tasks) :
        /\ f < t /\ i < t
        /\ wf.tasks[f].pc = "failed"
        /\ wf.tasks[i].pc = "ignored"
        /\ wf.tasks[t].pc = "sending"

(***************************************************************************)
(* start_mic_stream and stop_stream   (engine.py 134-168)                  *)
(*                                                                         *)
(* The engine holds at most one reference to a stream object.  Stream      *)
(* objects are numbered in the order sd.Stream constructs them; stream is  *)
(* the number of the object the engine holds, 0 for None, open is the set  *)
(* of objects constructed and not closed, and active the set of objects    *)
(* started and not stopped.  sd.Stream(...) opens the device and can       *)
(* raise, and so can stream.start(); stream.stop() and stream.close()      *)
(* ignore the errors of the audio library.                                 *)
(***************************************************************************)

\* Bounds of the stream model
MaxStreamCalls == 5      \* start_mic_stream and stop_stream calls

\* what the audio library does in a start_mic_stream call: the stream opens
\* and starts, sd.Stream raises, or stream.start() raises
StartOutcomes == {"started", "open_raises", "start_raises"}

\* the stream fields after AudioEngine.__init__ (lines 23, 26)
StreamFields ==
    [stream |-> 0, is_running |-> FALSE, created |-> 0, open |-> {}, active |-> {}]

\* AudioEngine.start_mic_stream
start_mic_stream(e, outcome) ==
    IF e.is_running THEN e
    ELSE IF outcome = "open_raises" THEN e
    ELSE LET s  == e.created + 1
             e1 == [e EXCEPT !.stream = s, !.created = s, !.open = @ \cup {s}]
         IN  IF outcome = "start_raises" THEN e1
             ELSE [e1 EXCEPT !.active = @ \cup {s}, !.is_running = TRUE]

\* AudioEngine.stop_stream
stop_stream(e) ==
    IF e.stream # 0
    THEN [e EXCEPT !.active = @ \ {e.stream}, !.open = @ \ {e.stream}, !.stream = 0,
                   !.is_running = FALSE]
    ELSE e

StreamInit ==
    strm = [e |-> StreamFields, last |-> [op |-> "none"], calls |-> 0]

\* the start_mic command
StreamStart ==
    /\ strm.calls < MaxStreamCalls
    /\ \E outcome \in StartOutcomes :
          strm' = [e |-> start_mic_stream(strm.e, outcome),
                   last |-> [op |-> "start_mic_stream", outcome |-> outcome,
                             pre |-> strm.e],
                   calls |-> strm.calls + 1]
    /\ UNCHANGED NotStream

\* the stop command
StreamStop ==
    /\ strm.calls < MaxStreamCalls
    /\ strm' = [e |-> stop_stream(strm.e),
                last |-> [op |-> "stop_stream", pre |-> strm.e],
                calls |-> strm.calls + 1]
    /\ UNCHANGED NotStream

NextStream == StreamStart \/ StreamStop

\* C30: after any sequence of start_mic_stream and stop_stream calls, also
\* with a start that fails, is_running is true exactly when the engine holds
\* a stream object; a start_mic_stream while running creates no second
\* stream; a stop_stream always leaves stream = None and is_running = false.
C30_RunningIffStream ==
    /\ strm.e.is_running = (strm.e.stream # 0)
    /\ (strm.last.op = "start_mic_stream" /\ strm.last.pre.is_running) =>
          strm.e.created = strm.last.pre.created
    /\ strm.last.op = "stop_stream" =>
          (strm.e.stream = 0 /\ ~strm.e.is_running)

(***************************************************************************)
(* handler and connected_client   (src/be/backend.py 73-122)               *)
(*                                                                         *)
(* Every connection runs handler as a coroutine of the event loop;         *)
(* coroutines interleave only where they await.  Lines 76-90 run in one    *)
(* piece, each command of the accepted client is handled in one piece      *)
(* (94-116), and so is the finally clause (118-122).  be holds the global  *)
(* connected_client, 0 for None, and one record for each connection: where *)
(* its handler is, the connected_client it found, and the stream fields of *)
(* the AudioEngine it created, if it created one.                          *)
(***************************************************************************)

\* Bounds of the connection model
MaxConnections == 3      \* connections made to the server
MaxCommands == 2         \* start_mic and stop commands of a session

\* handler that takes over the connection whatever connected_client holds
handler_begin_takeOver(connected_client, c) ==
    [connected_client |-> c, pc |-> "serving", engine |-> <<StreamFields>>]

\* handler, lines 76-90: a set connected_client returns at line 78; else the
\* connection is recorded and an AudioEngine created.  engine is the
\* sequence of the engines the handler has created.
handler_begin(connected_client, c) ==
    IF connected_client # 0
    THEN [connected_client |-> connected_client, pc |-> "rejected", engine |-> <<>>]
    ELSE [connected_client |-> c, pc |-> "serving", engine |-> <<StreamFields>>]

\* handler, lines 118-122: the finally clause
handler_end(engine) ==
    [connected_client |-> 0, pc |-> "ended", engine |-> <<stop_stream(engine[1])>>]

BackendInit ==
    be = [connected_client |-> 0, conns |-> <<>>]

\* a client connects and the server starts its handler
Connect ==
    /\ Len(be.conns) < MaxConnections
    /\ LET c == Len(be.conns) + 1
           r == handler_begin(be.connected_client, c)
       IN  be' = [connected_client |-> r.connected_client,
                  conns |-> Append(be.conns,
                              [pc |-> r.pc, found |-> be.connected_client,
                               engine |-> r.engine, commands |-> 0,
                               how |-> "none"])]
    /\ UNCHANGED NotBackend

\* lines 98-99: the accepted client sends start_mic
CommandStart ==
    /\ \E c \in 1..Len(be.conns), outcome \in StartOutcomes :
          /\ be.conns[c].pc = "serving"
          /\ be.conns[c].commands < MaxCommands
          /\ be' = [be EXCEPT !.conns[c].commands = @ + 1,
                              !.conns[c].engine[1] = start_mic_stream(@, outcome)]
    /\ UNCHANGED NotBackend

\* lines 100-101: the accepted client sends stop
CommandStop ==
    /\ \E c \in 1..Len(be.conns) :
          /\ be.conns[c].pc = "serving"
          /\ be.conns[c].commands < MaxCommands
          /\ be' = [be EXCEPT !.conns[c].commands = @ + 1,
                              !.conns[c].engine[1] = stop_stream(@)]
    /\ UNCHANGED NotBackend

\* the accepted client's handler ends: the client closes the connection and
\* the loop over the messages ends, or the loop raises; either way the
\* finally clause runs
Disconnect ==
    /\ \E c \in 1..Len(be.conns), how \in {"closed", "error"} :
          /\ be.conns[c].pc = "serving"
          /\ LET r == handler_end(be.conns[c].engine)
             IN  be' = [be EXCEPT !.connected_client = r.connected_client,
                                  !.conns[c].pc = r.pc,
                                  !.conns[c].engine = r.engine,
                                  !.conns[c].how = how]
    /\ UNCHANGED NotBackend

NextBackend == Connect \/ CommandStart \/ CommandStop \/ Disconnect

\* the connections being served
Served == {c \in 1..Len(be.conns) : be.conns[c].pc = "serving"}

\* C29: at most one client is served at a time; a connection arriving while
\* connected_client is set is rejected without creating an AudioEngine and
\* without changing connected_client; when the accepted client's handler
\* ends, normally or by an error, the stream is stopped and connected_client
\* is cleared, so that a later client can connect.
C29_OneClient ==
    /\ Cardinality(Served) <= 1
    /\ \A c \in Served : be.connected_client = c
    /\ Served = {} => be.connected_client = 0
    /\ \A c \in 1..Len(be.conns) :
          /\ be.conns[c].found # 0 =>
                /\ be.conns[c].pc = "rejected"
                /\ be.conns[c].engine = <<>>
                /\ be.conns[c].found < c
          /\ be.conns[c].found = 0 => be.conns[c].pc \in {"serving", "ended"}
          /\ be.conns[c].pc = "ended" =>
                /\ be.conns[c].engine[1].stream = 0
                /\ ~be.conns[c].engine[1].is_running
                /\ be.conns[c].engine[1].active = {}

\* the first client's handler has ended by an error while its stream was
\* open, the second connection was rejected meanwhile, and the third client
\* is being served with its stream running
C29_Witness ==
    /\ Len(be.conns) = 3
    /\ be.conns[1].pc = "ended" /\ be.conns[1].how = "error"
    /\ be.conns[1].engine[1].created > 0
    /\ be.conns[2].pc = "rejected"
    /\ be.conns[3].pc = "serving" /\ be.conns[3].engine[1].is_running

(***************************************************************************)
(* Specifications                                                          *)
(***************************************************************************)
InitParam ==
    /\ ParamInit /\ IdleChain /\ IdleDelay
    /\ IdleEngine /\ IdleRace /\ IdleReverb /\ IdleOctaver /\ IdleRamp /\ IdleLate
SpecParam == InitParam /\ [][ParamNext]_vars

InitChain ==
    /\ ChainInit /\ IdleParam /\ IdleDelay
    /\ IdleEngine /\ IdleRace /\ IdleReverb /\ IdleOctaver /\ IdleRamp /\ IdleLate
SpecChain == InitChain /\ [][ChainNext]_vars

InitChainZero ==
    /\ ChainInitZero /\ IdleParam /\ IdleDelay
    /\ IdleEngine /\ IdleRace /\ IdleReverb /\ IdleOctaver /\ IdleRamp /\ IdleLate
SpecChainZero == InitChainZero /\ [][ChainNext]_vars

InitDelay ==
    /\ DelayInit /\ IdleParam /\ IdleChain
    /\ IdleEngine /\ IdleRace /\ IdleReverb /\ IdleOctaver /\ IdleRamp /\ IdleLate
SpecDelay == InitDelay /\ [][DelayNext]_vars

InitImpulse ==
    /\ DelayInit /\ IdleParam /\ IdleChain
    /\ IdleEngine /\ IdleRace /\ IdleReverb /\ IdleOctaver /\ IdleRamp /\ IdleLate
SpecImpulse == InitImpulse /\ [][ImpulseNext]_vars

InitEngine ==
    /\ EngineInit /\ IdleParam /\ IdleChain /\ IdleDelay
    /\ IdleRace /\ IdleReverb /\ IdleOctaver /\ IdleRamp /\ IdleLate
SpecEngine == InitEngine /\ [][NextEngine]_vars

InitRebuild ==
    /\ EngineInit /\ IdleParam /\ IdleChain /\ IdleDelay
    /\ IdleRace /\ IdleReverb /\ IdleOctaver /\ IdleRamp /\ IdleLate
SpecRebuild == InitRebuild /\ [][NextRebuild]_vars

InitRace ==
    /\ RaceInit /\ IdleParam /\ IdleChain /\ IdleDelay
    /\ IdleEngine /\ IdleReverb /\ IdleOctaver /\ IdleRamp /\ IdleLate
SpecRace == InitRace /\ [][NextRace]_vars

InitReverb ==
    /\ ReverbInit /\ IdleParam /\ IdleChain /\ IdleDelay
    /\ IdleEngine /\ IdleRace /\ IdleOctaver /\ IdleRamp /\ IdleLate
SpecReverb == InitReverb /\ [][NextReverb]_vars

InitOctaver ==
    /\ OctaverInit /\ IdleParam /\ IdleChain /\ IdleDelay
    /\ IdleEngine /\ IdleRace /\ IdleReverb /\ IdleRamp /\ IdleLate
SpecOctaver == InitOctaver /\ [][NextOctaver]_vars

InitRamp ==
    /\ RampInit /\ IdleParam /\ IdleChain /\ IdleDelay
    /\ IdleEngine /\ IdleRace /\ IdleReverb /\ IdleOctaver /\ IdleLate
SpecRamp == InitRamp /\ [][NextRamp]_vars

InitGate ==
    /\ GateInit
    /\ IdleParam /\ IdleChain /\ IdleDelay /\ IdleEngine /\ IdleRace /\ IdleReverb /\ IdleOctaver /\ IdleRamp
    /\ IdleSpectral /\ IdleSender /\ IdleBackend /\ IdleStream /\ IdleWav
SpecGate == InitGate /\ [][NextGate]_vars

InitOctPhase ==
    /\ PhaseInit
    /\ IdleParam /\ IdleChain /\ IdleDelay /\ IdleEngine /\ IdleRace /\ IdleReverb /\ IdleRamp
    /\ IdleLate
SpecOctPhase == InitOctPhase /\ [][NextPhase]_vars

InitOctHold ==
    /\ HoldInit
    /\ IdleParam /\ IdleChain /\ IdleDelay /\ IdleEngine /\ IdleRace /\ IdleReverb /\ IdleRamp
    /\ IdleLate
SpecOctHold == InitOctHold /\ [][NextPhase]_vars

InitSpectral ==
    /\ SpectralInit
    /\ IdleParam /\ IdleChain /\ IdleDelay /\ IdleEngine /\ IdleRace /\ IdleReverb /\ IdleOctaver /\ IdleRamp
    /\ IdleGate /\ IdleSender /\ IdleBackend /\ IdleStream /\ IdleWav
SpecSpectral == InitSpectral /\ [][NextSpectral]_vars

InitSession ==
    /\ SessionInit
    /\ IdleParam /\ IdleChain /\ IdleDelay /\ IdleRace /\ IdleReverb /\ IdleOctaver /\ IdleRamp
    /\ IdleLate
SpecSession == InitSession /\ [][NextSession]_vars

InitSender ==
    /\ SenderInit
    /\ IdleParam /\ IdleChain /\ IdleDelay /\ IdleEngine /\ IdleRace /\ IdleReverb /\ IdleOctaver /\ IdleRamp
    /\ IdleGate /\ IdleSpectral /\ IdleBackend /\ IdleStream /\ IdleWav
SpecSender == InitSender /\ [][NextSender]_vars

InitWav ==
    /\ WavInit
    /\ IdleParam /\ IdleChain /\ IdleDelay /\ IdleEngine /\ IdleRace /\ IdleReverb /\ IdleOctaver /\ IdleRamp
    /\ IdleGate /\ IdleSpectral /\ IdleSender /\ IdleBackend /\ IdleStream
SpecWav == InitWav /\ [][NextWav]_vars

InitStream ==
    /\ StreamInit
    /\ IdleParam /\ IdleChain /\ IdleDelay /\ IdleEngine /\ IdleRace /\ IdleReverb /\ IdleOctaver /\ IdleRamp
    /\ IdleGate /\ IdleSpectral /\ IdleSender /\ IdleBackend /\ IdleWav
SpecStream == InitStream /\ [][NextStream]_vars

InitBackend ==
    /\ BackendInit
    /\ IdleParam /\ IdleChain /\ IdleDelay /\ IdleEngine /\ IdleRace /\ IdleReverb /\ IdleOctaver /\ IdleRamp
    /\ IdleGate /\ IdleSpectral /\ IdleSender /\ IdleStream /\ IdleWav
SpecBackend == InitBackend /\ [][NextBackend]_vars

====
